---- MODULE Spec2Model ----
(***************************************************************************)
(* Model of PTManager::ThreadPool (src/src/ThreadPool.cpp,                 *)
(* src/include/ThreadPool.h) and of the primitives SafeMutex,              *)
(* SafeLockGuard, Semaphore, RWLock, Barrier, ConditionVariable, SpinLock  *)
(* (src/src/Synchronization.cpp, src/include/Synchronization.h).  Each     *)
(* component has its own specification over the shared variables: Spec and *)
(* FairSpec for the pool, MutexSpec for SafeMutex and SafeLockGuard,       *)
(* CrossSpec and FairCrossSpec for two threads taking two SafeMutex        *)
(* objects in opposite orders, SemSpec and FairSemSpec for Semaphore,      *)
(* BufferSpec and FairBufferSpec for the producer and the consumer of      *)
(* testSemaphore, RWSpec and FairRWSpec for RWLock, BarrierSpec and        *)
(* FairBarrierSpec for Barrier, CvSpec and FairCvSpec for                  *)
(* ConditionVariable, SpinSpec for SpinLock.  The variables of the         *)
(* components a specification does not use keep their initial value.       *)
(*                                                                         *)
(* The pool is described first; the primitives follow it.                  *)
(*                                                                         *)
(* Threads: the pool's workers (workerThread), one producer calling        *)
(* enqueue(), one thread calling waitForCompletion(), two threads calling  *)
(* shutdown(), and one monitoring thread calling printThreadStates(),      *)
(* getThreadState() and getQueuedTasks().                                  *)
(*                                                                         *)
(* A std::mutex is a variable holding its owner.  A critical section that  *)
(* contains no blocking call is one step (guarded by the mutex being       *)
(* free); a critical section that takes a second mutex or waits on the     *)
(* condition variable is split at every blocking point.  The variables     *)
(* marked "history" record what has happened and are read by no action.    *)
(***************************************************************************)
EXTENDS Integers, Sequences, FiniteSets, TLC

(* ------------------------------ bounds -------------------------------- *)
NumWorkers == 2        \* numThreads passed to the constructor
MaxTasks == 2          \* number of enqueue() calls the producer makes

Workers == 0 .. (NumWorkers - 1)
TaskIds == 1 .. MaxTasks
Closers == {1, 2}      \* the threads that call shutdown()

(* --------------------------- thread identities ------------------------ *)
Free == <<"free", 0>>
WorkerId(i) == <<"worker", i>>
MonitorId == <<"monitor", 0>>

NoTask == 0

VARIABLES
    tasks,          \* std::queue<std::function<void()>> tasks
    stop,           \* std::atomic<bool> stop
    activeTasks,    \* std::atomic<size_t> activeTasks
    workerStates,   \* std::vector<ThreadState> workerStates
    queueMutex,     \* owner of std::mutex queueMutex
    stateMutex,     \* owner of std::mutex stateMutex
    condWaiters,    \* workers blocked inside condition.wait
    joinable,       \* std::thread::joinable() of each element of workers
    wpc,            \* position of each worker in workerThread()
    wtask,          \* the local `task` of each worker
    wraised,        \* the call task() of this iteration raised
    ppc,            \* position of the producer
    nextTask,       \* id of the task the producer submits next
    fpc,            \* position of the waitForCompletion() caller
    spc,            \* position of each shutdown() caller
    mpc,            \* position of the monitor
    accepted,       \* history: task ids in the order enqueue() accepted them
    rejected,       \* history: task ids enqueue() rejected by throwing
    dequeued,       \* history: task ids in the order workers popped them
    execCount,      \* history: number of times each task body has run
    fRaced,         \* history: an enqueue() ran during waitForCompletion()
    safeMutex,      \* the SafeMutex objects: name -> [mtx, owner, lockCount]
    mthread,        \* the threads that use the SafeMutex objects
    counter,        \* int counter of testMutex
    incsDone,       \* history: number of counter++ statements completed
    started,        \* history: number of guarded scopes entered so far
    semaphore,      \* the Semaphore object: [value, initialized]
                    \* (in testSemaphore its two objects: name -> object)
    sthread,        \* the threads that use the Semaphore
    semStats,       \* history: calls of the Semaphore that have returned
    buffer,         \* testSemaphore: [slots, writePos, readPos]
    prodcons,       \* testSemaphore: loop counters, and history of the items
    rwLock,         \* the RWLock object: [readers, writers, waitingWriters]
    rwthread,       \* the threads that use the RWLock
    barrier,        \* the Barrier object: [threshold, count, generation]
    bthread,        \* the threads that use the Barrier
    arrivals,       \* history: calls of Barrier::wait() made in each generation
    conditionVariable,  \* the ConditionVariable object: [ready]
    cvthread,       \* the threads that use the ConditionVariable
    spinLock,       \* the SpinLock object: [flag]
    spthread     \* the threads that use the SpinLock

threadPoolVars == <<tasks, stop, activeTasks, workerStates, queueMutex, stateMutex,
          condWaiters, joinable, wpc, wtask, wraised, ppc, nextTask, fpc, spc,
          mpc, accepted, rejected, dequeued, execCount,
          fRaced>>

mutexVars == <<safeMutex, mthread, counter, incsDone, started>>
semVars == <<semaphore, sthread, semStats>>
bufferVars == <<buffer, prodcons>>
rwVars == <<rwLock, rwthread>>
barrierVars == <<barrier, bthread, arrivals>>
cvVars == <<conditionVariable, cvthread>>
spinVars == <<spinLock, spthread>>
syncVars ==
    <<mutexVars, semVars, bufferVars, rwVars, barrierVars, cvVars, spinVars>>

vars == <<threadPoolVars, syncVars>>

poolVars == <<tasks, stop, activeTasks, workerStates>>
lockVars == <<queueMutex, stateMutex, condWaiters>>
workerVars == <<wpc, wtask, wraised, joinable>>
producerVars == <<ppc, nextTask>>
closerVars == <<spc>>
monitorVars == <<mpc>>
histVars == <<accepted, rejected, dequeued, execCount>>

(* ------------------------ pure pieces of the code --------------------- *)

\* condition.wait predicate: stop.load() || !tasks.empty()
WaitPredicate(s, q) == s \/ q # <<>>

\* if (stop.load() && tasks.empty())
ShouldTerminate(s, q) == s /\ q = <<>>

\* tasks.front()
Front_Last(q) == q[Len(q)]
Front(q) == Head(q)

\* tasks.pop()
Pop(q) == Tail(q)

\* tasks.emplace(...)
Emplace(q, t) == Append(q, t)

\* if (stop) throw std::runtime_error(...)
EnqueueRejects_Never(s) == FALSE
EnqueueRejects(s) == s

\* if (stop.load()) return;  // Already stopped
AlreadyStopped_Never(s) == FALSE
AlreadyStopped(s) == s

\* if (tasks.empty() && activeTasks.load() == 0) break;
IsComplete(q, a) == q = <<>> /\ a = 0

\* workerStates[id] = ThreadState::IDLE
MarkIdle_Skip(ws, id) == ws
MarkIdle(ws, id) == [ws EXCEPT ![id] = "IDLE"]

\* workerStates[id] = ThreadState::RUNNING
MarkRunning_Skip(ws, id) == ws
MarkRunning(ws, id) == [ws EXCEPT ![id] = "RUNNING"]

\* workerStates[id] = ThreadState::TERMINATED
MarkTerminated(ws, id) == [ws EXCEPT ![id] = "TERMINATED"]

\* The queued closure is [task](){ (*task)(); } over a std::packaged_task:
\* an exception raised by the body is stored in the shared state of the
\* future and the call returns normally.
PackagedTaskEscapes(raised) == FALSE

\* activeTasks--; after the try/catch, whether or not the task body raised.
ActiveAfterTask_SkipOnThrow(a, raised) == IF raised THEN a ELSE a - 1
ActiveAfterTask(a, raised) == a - 1

(* -------------------------------- Init -------------------------------- *)

\* No SafeMutex exists and no thread uses one.
NoSafeMutex ==
    /\ safeMutex = <<>>
    /\ mthread = <<>>
    /\ counter = 0
    /\ incsDone = 0
    /\ started = 0

\* No Semaphore exists and no thread uses one.
NoSemaphore ==
    /\ semaphore = <<>>
    /\ sthread = <<>>
    /\ semStats = <<>>

\* testSemaphore is not running.
NoBuffer ==
    /\ buffer = <<>>
    /\ prodcons = <<>>

\* No RWLock exists and no thread uses one.
NoRWLock ==
    /\ rwLock = <<>>
    /\ rwthread = <<>>

\* No Barrier exists and no thread uses one.
NoBarrier ==
    /\ barrier = <<>>
    /\ bthread = <<>>
    /\ arrivals = <<>>

\* No ConditionVariable exists and no thread uses one.
NoConditionVariable ==
    /\ conditionVariable = <<>>
    /\ cvthread = <<>>

\* No SpinLock exists and no thread uses one.
NoSpinLock ==
    /\ spinLock = <<>>
    /\ spthread = <<>>

\* ThreadPool::ThreadPool(numThreads)
PoolInit ==
    /\ tasks = <<>>
    /\ stop = FALSE
    /\ activeTasks = 0
    /\ workerStates = [i \in Workers |-> "IDLE"]
    /\ queueMutex = Free
    /\ stateMutex = Free
    /\ condWaiters = {}
    /\ joinable = [i \in Workers |-> TRUE]
    /\ wpc = [i \in Workers |-> "w_lockQueue"]
    /\ wtask = [i \in Workers |-> NoTask]
    /\ wraised = [i \in Workers |-> FALSE]
    /\ ppc = "p_call"
    /\ nextTask = 1
    /\ fpc = "f_idle"
    /\ spc = [c \in Closers |-> "s_idle"]
    /\ mpc = "m_idle"
    /\ accepted = <<>>
    /\ rejected = {}
    /\ dequeued = <<>>
    /\ execCount = [t \in TaskIds |-> 0]
    /\ fRaced = FALSE

\* A pool on its own: its clients use no other synchronisation object.
Init ==
    /\ PoolInit
    /\ NoSafeMutex
    /\ NoSemaphore
    /\ NoBuffer
    /\ NoRWLock
    /\ NoBarrier
    /\ NoConditionVariable
    /\ NoSpinLock

(* ----------------------------- workerThread --------------------------- *)

\* while (true) { std::function<void()> task;
\*                std::unique_lock<std::mutex> lock(queueMutex);
\* A new iteration starts (nothing has been raised in it) and takes the
\* queue lock.
WorkerLockQueue(i) ==
    /\ wpc[i] = "w_lockQueue"
    /\ queueMutex = Free
    /\ queueMutex' = WorkerId(i)
    /\ wraised' = [wraised EXCEPT ![i] = FALSE]
    /\ wpc' = [wpc EXCEPT ![i] = "w_markIdle"]
    /\ UNCHANGED <<poolVars, stateMutex, condWaiters, wtask, joinable,
                   producerVars, fpc, closerVars, monitorVars, histVars,
                   fRaced>>
    /\ UNCHANGED syncVars

\* { lock_guard stateLock(stateMutex); workerStates[id] = IDLE; }
WorkerMarkIdle(i) ==
    /\ wpc[i] = "w_markIdle"
    /\ stateMutex = Free
    /\ workerStates' = MarkIdle(workerStates, i)
    /\ wpc' = [wpc EXCEPT ![i] = "w_wait"]
    /\ UNCHANGED <<tasks, stop, activeTasks, lockVars, wtask, wraised,
                   joinable, producerVars, fpc, closerVars, monitorVars,
                   histVars, fRaced>>
    /\ UNCHANGED syncVars

\* condition.wait(lock, pred): the predicate is false, the worker releases
\* queueMutex and blocks.
WorkerBlock(i) ==
    /\ wpc[i] = "w_wait"
    /\ ~WaitPredicate(stop, tasks)
    /\ queueMutex' = Free
    /\ condWaiters' = condWaiters \cup {i}
    /\ wpc' = [wpc EXCEPT ![i] = "w_blocked"]
    /\ UNCHANGED <<poolVars, stateMutex, wtask, wraised, joinable,
                   producerVars, fpc, closerVars, monitorVars, histVars,
                   fRaced>>
    /\ UNCHANGED syncVars

\* A blocked worker wakes without a notification (std::condition_variable
\* permits spurious wake-ups).
WorkerSpuriousWake(i) ==
    /\ wpc[i] = "w_blocked"
    /\ i \in condWaiters
    /\ condWaiters' = condWaiters \ {i}
    /\ wpc' = [wpc EXCEPT ![i] = "w_relock"]
    /\ UNCHANGED <<poolVars, queueMutex, stateMutex, wtask, wraised, joinable,
                   producerVars, fpc, closerVars, monitorVars, histVars,
                   fRaced>>
    /\ UNCHANGED syncVars

\* A woken worker re-acquires queueMutex inside condition.wait and evaluates
\* the predicate again.
WorkerRelock(i) ==
    /\ wpc[i] = "w_relock"
    /\ queueMutex = Free
    /\ queueMutex' = WorkerId(i)
    /\ wpc' = [wpc EXCEPT ![i] = "w_wait"]
    /\ UNCHANGED <<poolVars, stateMutex, condWaiters, wtask, wraised,
                   joinable, producerVars, fpc, closerVars, monitorVars,
                   histVars, fRaced>>
    /\ UNCHANGED syncVars

\* The predicate holds and stop && tasks.empty(): the worker takes stateMutex,
\* marks itself TERMINATED and returns (both locks are released).
WorkerTerminate(i) ==
    /\ wpc[i] = "w_wait"
    /\ WaitPredicate(stop, tasks)
    /\ ShouldTerminate(stop, tasks)
    /\ stateMutex = Free
    /\ workerStates' = MarkTerminated(workerStates, i)
    /\ queueMutex' = Free
    /\ wpc' = [wpc EXCEPT ![i] = "w_done"]
    /\ UNCHANGED <<tasks, stop, activeTasks, stateMutex, condWaiters, wtask,
                   wraised, joinable, producerVars, fpc, closerVars,
                   monitorVars, histVars, fRaced>>
    /\ UNCHANGED syncVars

\* The predicate holds and the worker does not terminate:
\* if (!tasks.empty()) { task = move(tasks.front()); tasks.pop(); }
\* then the queue lock is released at the end of the block.
WorkerDequeue(i) ==
    /\ wpc[i] = "w_wait"
    /\ WaitPredicate(stop, tasks)
    /\ ~ShouldTerminate(stop, tasks)
    /\ IF tasks # <<>>
         THEN /\ wtask' = [wtask EXCEPT ![i] = Front(tasks)]
              /\ tasks' = Pop(tasks)
              /\ dequeued' = Append(dequeued, Front(tasks))
         ELSE UNCHANGED <<wtask, tasks, dequeued>>
    /\ queueMutex' = Free
    /\ wpc' = [wpc EXCEPT ![i] = "w_haveTask"]
    /\ UNCHANGED <<stop, activeTasks, workerStates, stateMutex, condWaiters,
                   wraised, joinable, producerVars, fpc, closerVars,
                   monitorVars, accepted, rejected, execCount, fRaced>>
    /\ UNCHANGED syncVars

\* if (task) { { lock_guard stateLock(stateMutex); workerStates[id] = RUNNING; }
\* otherwise back to the top of the loop.
WorkerMarkRunning(i) ==
    /\ wpc[i] = "w_haveTask"
    /\ IF wtask[i] # NoTask
         THEN /\ stateMutex = Free
              /\ workerStates' = MarkRunning(workerStates, i)
              /\ wpc' = [wpc EXCEPT ![i] = "w_incActive"]
         ELSE /\ wpc' = [wpc EXCEPT ![i] = "w_lockQueue"]
              /\ UNCHANGED workerStates
    /\ UNCHANGED <<tasks, stop, activeTasks, lockVars, wtask, wraised,
                   joinable, producerVars, fpc, closerVars, monitorVars,
                   histVars, fRaced>>
    /\ UNCHANGED syncVars

\* activeTasks++;
WorkerIncActive(i) ==
    /\ wpc[i] = "w_incActive"
    /\ activeTasks' = activeTasks + 1
    /\ wpc' = [wpc EXCEPT ![i] = "w_run"]
    /\ UNCHANGED <<tasks, stop, workerStates, lockVars, wtask, wraised,
                   joinable, producerVars, fpc, closerVars, monitorVars,
                   histVars, fRaced>>
    /\ UNCHANGED syncVars

\* try { task(); } catch (const std::exception& e) { ... }
\* The task body returns or raises.  The packaged_task keeps what it raised,
\* so nothing leaves task(); an exception that did leave it would be caught
\* and logged here ("w_caught"), and the worker goes on either way.
WorkerRunTask(i) ==
    /\ wpc[i] = "w_run"
    /\ \E raised \in BOOLEAN :
         /\ wraised' = [wraised EXCEPT ![i] = raised]
         /\ wpc' = [wpc EXCEPT ![i] =
                      IF PackagedTaskEscapes(raised) THEN "w_caught"
                                                     ELSE "w_decActive"]
    /\ execCount' = [execCount EXCEPT ![wtask[i]] = @ + 1]
    /\ UNCHANGED <<poolVars, lockVars, wtask, joinable, producerVars, fpc,
                   closerVars, monitorVars, accepted, rejected, dequeued,
                   fRaced>>
    /\ UNCHANGED syncVars

\* activeTasks--; } and back to the top of the loop: `task` is destroyed at
\* the end of the iteration.
WorkerDecActive(i) ==
    /\ wpc[i] \in {"w_decActive", "w_caught"}
    /\ activeTasks' = ActiveAfterTask(activeTasks, wraised[i])
    /\ wtask' = [wtask EXCEPT ![i] = NoTask]
    /\ wpc' = [wpc EXCEPT ![i] = "w_lockQueue"]
    /\ UNCHANGED <<tasks, stop, workerStates, lockVars, wraised,
                   joinable, producerVars, fpc, closerVars, monitorVars,
                   histVars, fRaced>>
    /\ UNCHANGED syncVars

(* -------------------------------- enqueue ------------------------------ *)

\* { unique_lock lock(queueMutex); if (stop) throw ...; tasks.emplace(...); }
\* A rejected call leaves by the exception; an accepted one goes on to
\* condition.notify_one().
Enqueue ==
    /\ ppc = "p_call"
    /\ nextTask <= MaxTasks
    /\ queueMutex = Free
    /\ IF EnqueueRejects(stop)
         THEN /\ rejected' = rejected \cup {nextTask}
              /\ nextTask' = nextTask + 1
              /\ UNCHANGED <<tasks, accepted, ppc>>
         ELSE /\ tasks' = Emplace(tasks, nextTask)
              /\ accepted' = Append(accepted, nextTask)
              /\ ppc' = "p_notify"
              /\ UNCHANGED <<rejected, nextTask>>
    /\ fRaced' = (fRaced \/ fpc = "f_polling")
    /\ UNCHANGED <<stop, activeTasks, workerStates, lockVars, workerVars,
                   fpc, closerVars, monitorVars, dequeued, execCount>>
    /\ UNCHANGED syncVars

\* condition.notify_one(); return res;
\* One of the workers blocked in condition.wait (if any) is woken.
EnqueueNotify ==
    /\ ppc = "p_notify"
    /\ IF condWaiters = {}
         THEN UNCHANGED <<condWaiters, wpc>>
         ELSE \E i \in condWaiters :
                /\ condWaiters' = condWaiters \ {i}
                /\ wpc' = [wpc EXCEPT ![i] = "w_relock"]
    /\ ppc' = "p_call"
    /\ nextTask' = nextTask + 1
    /\ fRaced' = (fRaced \/ fpc = "f_polling")
    /\ UNCHANGED <<poolVars, queueMutex, stateMutex, wtask, wraised, joinable, fpc,
                   closerVars, monitorVars, histVars>>
    /\ UNCHANGED syncVars

(* --------------------------- waitForCompletion ------------------------ *)

\* The call begins.
WaitCall ==
    /\ fpc = "f_idle"
    /\ fpc' = "f_polling"
    /\ fRaced' = (ppc = "p_notify")
    /\ UNCHANGED <<poolVars, lockVars, workerVars, producerVars, closerVars,
                   monitorVars, histVars>>
    /\ UNCHANGED syncVars

\* { lock_guard lock(queueMutex); if (tasks.empty() && activeTasks == 0) break; }
\* A poll that does not break sleeps 10ms and changes nothing.
WaitPoll ==
    /\ fpc = "f_polling"
    /\ queueMutex = Free
    /\ IsComplete(tasks, activeTasks)
    /\ fpc' = "f_returned"
    /\ UNCHANGED <<poolVars, lockVars, workerVars, producerVars, closerVars,
                   monitorVars, histVars, fRaced>>
    /\ UNCHANGED syncVars

(* ------------------------------- shutdown ----------------------------- *)

\* A thread calls shutdown():
\* { unique_lock lock(queueMutex); if (stop.load()) return; stop = true; }
ShutdownSetStop(c) ==
    /\ spc[c] = "s_idle"
    /\ queueMutex = Free
    /\ IF AlreadyStopped(stop)
         THEN /\ spc' = [spc EXCEPT ![c] = "s_returned"]
              /\ UNCHANGED stop
         ELSE /\ stop' = TRUE
              /\ spc' = [spc EXCEPT ![c] = "s_notify"]
    /\ UNCHANGED <<tasks, activeTasks, workerStates, lockVars, workerVars,
                   producerVars, fpc, monitorVars, histVars, fRaced>>
    /\ UNCHANGED syncVars

\* condition.notify_all();
ShutdownNotifyAll(c) ==
    /\ spc[c] = "s_notify"
    /\ condWaiters' = {}
    /\ wpc' = [i \in Workers |->
                 IF i \in condWaiters THEN "w_relock" ELSE wpc[i]]
    /\ spc' = [spc EXCEPT ![c] = "s_join"]
    /\ UNCHANGED <<poolVars, queueMutex, stateMutex, wtask, wraised, joinable,
                   producerVars, fpc, monitorVars, histVars, fRaced>>
    /\ UNCHANGED syncVars

\* for (std::thread& worker : workers) if (worker.joinable()) worker.join();
\* std::cout << "ThreadPool shut down"; return.
\* join() blocks until the worker's function has returned; a worker that has
\* returned never runs again, so the loop ends exactly when every joinable
\* worker has returned.
ShutdownJoinAll(c) ==
    /\ spc[c] = "s_join"
    /\ \A i \in Workers : joinable[i] => wpc[i] = "w_done"
    /\ joinable' = [i \in Workers |-> FALSE]
    /\ spc' = [spc EXCEPT ![c] = "s_returned"]
    /\ UNCHANGED <<poolVars, lockVars, wpc, wtask, wraised, producerVars,
                   fpc, monitorVars, histVars, fRaced>>
    /\ UNCHANGED syncVars

(* ---------------------------- status queries -------------------------- *)

\* getThreadState(id): an invalid id returns TERMINATED without locking,
\* a valid one reads workerStates[id] under stateMutex.
GetThreadState ==
    /\ mpc = "m_idle"
    /\ (\E id \in 0 .. NumWorkers : id >= NumWorkers \/ stateMutex = Free) = TRUE
    /\ UNCHANGED <<poolVars, lockVars, workerVars, producerVars, fpc,
                   closerVars, monitorVars, histVars, fRaced>>
    /\ UNCHANGED syncVars

\* getQueuedTasks(): { lock_guard lock(queueMutex); return tasks.size(); }
GetQueuedTasks ==
    /\ mpc = "m_idle"
    /\ queueMutex = Free
    /\ UNCHANGED <<poolVars, lockVars, workerVars, producerVars, fpc,
                   closerVars, monitorVars, histVars, fRaced>>
    /\ UNCHANGED syncVars

\* printThreadStates(): std::lock_guard<std::mutex> lock(stateMutex);
PrintLockState ==
    /\ mpc = "m_idle"
    /\ stateMutex = Free
    /\ stateMutex' = MonitorId
    /\ mpc' = "m_printQueued"
    /\ UNCHANGED <<poolVars, queueMutex, condWaiters, workerVars,
                   producerVars, fpc, closerVars, histVars, fRaced>>
    /\ UNCHANGED syncVars

\* printThreadStates(): ... << getQueuedTasks() takes queueMutex while
\* stateMutex is held; the states are then printed and stateMutex released.
PrintQueuedAndStates ==
    /\ mpc = "m_printQueued"
    /\ queueMutex = Free
    /\ stateMutex' = Free
    /\ mpc' = "m_idle"
    /\ UNCHANGED <<poolVars, queueMutex, condWaiters, workerVars,
                   producerVars, fpc, closerVars, histVars, fRaced>>
    /\ UNCHANGED syncVars

(* ----------------------------- specification -------------------------- *)

WorkerStep(i) ==
    \/ WorkerLockQueue(i)
    \/ WorkerMarkIdle(i)
    \/ WorkerBlock(i)
    \/ WorkerRelock(i)
    \/ WorkerTerminate(i)
    \/ WorkerDequeue(i)
    \/ WorkerMarkRunning(i)
    \/ WorkerIncActive(i)
    \/ WorkerRunTask(i)
    \/ WorkerDecActive(i)

ShutdownStep(c) ==
    \/ ShutdownNotifyAll(c)
    \/ ShutdownJoinAll(c)

MonitorStep ==
    \/ GetThreadState
    \/ GetQueuedTasks
    \/ PrintLockState
    \/ PrintQueuedAndStates

Next ==
    \/ \E i \in Workers : WorkerStep(i)
    \/ \E i \in Workers : WorkerSpuriousWake(i)
    \/ Enqueue
    \/ EnqueueNotify
    \/ WaitCall
    \/ WaitPoll
    \/ \E c \in Closers : ShutdownSetStop(c)
    \/ \E c \in Closers : ShutdownStep(c)
    \/ MonitorStep

Spec == Init /\ [][Next]_vars

\* Every thread that can take its next step eventually takes it (the OS
\* schedules every runnable thread), and a thread that is trying to lock a
\* mutex which is released again and again eventually gets it; hence strong
\* fairness.  Whether a client calls waitForCompletion(), shutdown() or a
\* status query at all is up to the client, and a spurious wake-up is never
\* guaranteed.
Fairness ==
    /\ \A i \in Workers : SF_vars(WorkerStep(i))
    /\ SF_vars(Enqueue)
    /\ SF_vars(EnqueueNotify)
    /\ SF_vars(WaitPoll)
    /\ \A c \in Closers : SF_vars(ShutdownStep(c))
    /\ SF_vars(PrintQueuedAndStates)

FairSpec == Spec /\ Fairness

(* ------------------------------ vocabulary ---------------------------- *)

Range(q) == {q[k] : k \in 1 .. Len(q)}

\* The producer has made all its enqueue() calls and the last has returned.
ProducerDone == ppc = "p_call" /\ nextTask > MaxTasks

\* No thread has called shutdown().
NoShutdownCalled == \A c \in Closers : spc[c] = "s_idle"

\* Every worker's thread function has returned.
AllWorkersDone == \A i \in Workers : wpc[i] = "w_done"

\* Worker i holds queueMutex and waits for stateMutex, which the monitor
\* holds while it waits for queueMutex inside getQueuedTasks().
LockCycle(i) ==
    /\ queueMutex = WorkerId(i)
    /\ stateMutex = MonitorId
    /\ mpc = "m_printQueued"
    /\ \/ wpc[i] = "w_markIdle"
       \/ wpc[i] = "w_wait" /\ ShouldTerminate(stop, tasks)

(* ---------------------------------- C1 -------------------------------- *)

\* C1: on a pool on which shutdown() is never called, no task runs more than
\* once, every accepted task is eventually run, and a waitForCompletion()
\* call made after the last submission eventually returns.
C1_AllRunOnceAndWaitReturns ==
    []NoShutdownCalled =>
        /\ [](\A t \in TaskIds : execCount[t] <= 1)
        /\ \A t \in TaskIds : (t \in Range(accepted)) ~> (execCount[t] = 1)
        /\ (fpc = "f_polling" /\ ProducerDone /\ ~fRaced) ~> (fpc = "f_returned")

(* ---------------------------------- C2 -------------------------------- *)

\* C2: once shutdown() has set the stop flag, no worker dequeues a task any
\* more (the tasks still queued are discarded).
C2_NoDequeueAfterStop == [][stop => dequeued' = dequeued]_vars

(* ---------------------------------- C3 -------------------------------- *)

\* C3: when waitForCompletion() returns and no enqueue() ran during the call,
\* the queue is empty and every accepted task has run.
C3_WaitReturnsOnlyWhenAllRan ==
    [][(fpc = "f_polling" /\ fpc' = "f_returned" /\ ~fRaced)
         => (tasks' = <<>> /\ \A t \in Range(accepted') : execCount'[t] >= 1)]_vars

(* ---------------------------------- C4 -------------------------------- *)

\* An enqueue() call passes its check of the stop flag in this step.
EnqueueChecks == accepted' # accepted \/ rejected' # rejected

C5_DequeueOrderIsAcceptOrder ==
    /\ Len(dequeued) <= Len(accepted)
    /\ \A k \in 1 .. Len(dequeued) : dequeued[k] = accepted[k]

C5_Witness ==
    /\ Len(dequeued) >= 2
    /\ \E i, j \in Workers : i # j /\ wtask[i] = dequeued[1] /\ wtask[j] = dequeued[2]

(* ---------------------------------- C6 -------------------------------- *)

\* C6: whenever a shutdown() call has returned, every worker is Terminated.
C6_ReturnedImpliesAllTerminated ==
    \A c \in Closers :
        spc[c] = "s_returned" => \A i \in Workers : workerStates[i] = "TERMINATED"

(* ---------------------------------- C7 -------------------------------- *)

\* C7: a shutdown() call that runs after another call has completed returns
\* from its check of the stop flag and changes nothing of the pool.
C7_SecondShutdownIsNoOp ==
    [][\A c \in Closers :
          (/\ spc[c] = "s_idle"
           /\ spc'[c] # "s_idle"
           /\ \E d \in Closers \ {c} : spc[d] = "s_returned")
          => /\ spc'[c] = "s_returned"
             /\ UNCHANGED <<tasks, stop, activeTasks, workerStates, joinable,
                            queueMutex, stateMutex, condWaiters, wpc>>]_vars

C7_Witness ==
    /\ \A c \in Closers : spc[c] = "s_returned"
    /\ \A i \in Workers : ~joinable[i]

(* ---------------------------------- C8 -------------------------------- *)

AllowedTransitions ==
    {<<"IDLE", "RUNNING">>, <<"RUNNING", "IDLE">>, <<"IDLE", "TERMINATED">>}

\* C8: the state of a worker changes only by Idle->Running, Running->Idle
\* and Idle->Terminated, only in a step of that worker, and to Terminated
\* only when the stop flag is set.
C8_WorkerStateTransitions ==
    [][\A i \in Workers :
          workerStates'[i] # workerStates[i]
          => /\ <<workerStates[i], workerStates'[i]>> \in AllowedTransitions
             /\ WorkerStep(i)
             /\ workerStates'[i] = "TERMINATED" => stop]_vars

C8_Witness ==
    /\ \A i \in Workers : workerStates[i] = "TERMINATED"
    /\ \E t \in TaskIds : execCount[t] = 1

(* ---------------------------------- C9 -------------------------------- *)

\* C9: a worker whose task raised goes on: it decrements the active count
\* and returns to the top of its loop without terminating; no task runs
\* twice, and when every worker has returned every accepted task has run
\* exactly once.
C9_FailingTaskDoesNotStopWorker ==
    /\ [][\A i \in Workers :
            /\ (wpc[i] = "w_run" /\ wpc'[i] # "w_run") => wpc'[i] = "w_decActive"
            /\ (wpc[i] = "w_decActive" /\ wpc'[i] # wpc[i] /\ wraised[i])
               => /\ activeTasks' = activeTasks - 1
                  /\ wpc'[i] = "w_lockQueue"
                  /\ workerStates'[i] = "RUNNING"]_vars
    /\ [](\A t \in TaskIds : execCount[t] <= 1)
    /\ [](AllWorkersDone => \A t \in Range(accepted) : execCount[t] = 1)

\* The task of worker i raised; the worker has decremented the count and is
\* back at the top of its loop, and two tasks have run.
C9_Witness ==
    \E i \in Workers :
        /\ wpc[i] = "w_lockQueue"
        /\ wraised[i]
        /\ activeTasks = 0
        /\ \E t, u \in TaskIds : t # u /\ execCount[t] = 1 /\ execCount[u] = 1

(* ---------------------------------- C10 ------------------------------- *)

\* C10: the monitor and a worker are never blocked on each other (one
\* holding stateMutex and waiting for queueMutex, the other the reverse).
C10_NoLockCycle == \A i \in Workers : ~LockCycle(i)

(* ---------------------------------- C35 ------------------------------- *)

\* The notify_one() of an accepted enqueue() wakes one of the workers
\* blocked in condition.wait and no other worker, and nobody when no worker
\* is blocked.
NotifyWakesOne ==
    [][(ppc = "p_notify" /\ ppc' = "p_call")
         => IF condWaiters = {}
              THEN condWaiters' = condWaiters /\ wpc' = wpc
              ELSE \E i \in condWaiters :
                     /\ condWaiters' = condWaiters \ {i}
                     /\ wpc'[i] = "w_relock"
                     /\ \A j \in Workers \ {i} : wpc'[j] = wpc[j]]_vars

\* A task is taken from the queue by one worker only and runs once.
TakenByOneWorker ==
    \A t \in TaskIds :
        /\ Cardinality({i \in Workers : wtask[i] = t}) <= 1
        /\ Cardinality({k \in 1 .. Len(dequeued) : dequeued[k] = t}) <= 1
        /\ execCount[t] <= 1

\* A woken worker that finds the queue empty and the stop flag clear blocks
\* again, with state IDLE.
WokenForNothingBlocksAgain ==
    [][\A i \in Workers :
         (wpc[i] = "w_wait" /\ wpc'[i] # "w_wait"
            /\ ~WaitPredicate(stop, tasks))
           => (wpc'[i] = "w_blocked" /\ workerStates'[i] = "IDLE")]_vars

\* No accepted task stays in the queue forever.
QueuedTaskEventuallyTaken ==
    \A t \in TaskIds : (t \in Range(tasks)) ~> (t \in Range(dequeued))

\* The monitor never calls printThreadStates().
NoPrintThreadStates == [](mpc = "m_idle")

\* C35: an accepted enqueue() wakes exactly one blocked worker; the task is
\* taken and run by exactly one worker, the others block again; and no
\* submitted task stays in the queue forever.
C35_EnqueueWakesOneAndTaskIsTaken ==
    /\ NotifyWakesOne
    /\ []TakenByOneWorker
    /\ WokenForNothingBlocksAgain
    /\ QueuedTaskEventuallyTaken

\* When printThreadStates() is never called, no accepted task stays in the
\* queue forever.
TakenWithoutPrintThreadStates ==
    NoPrintThreadStates => QueuedTaskEventuallyTaken

(* ---------------------------------- C37 ------------------------------- *)

\* The workers whose state is RUNNING.
RunningWorkers == {i \in Workers : workerStates[i] = "RUNNING"}

\* C37: activeTasks is never negative and never more than the number of
\* workers in state RUNNING, which is at most the number of workers; and a
\* worker blocked in condition.wait has state IDLE.
C37_ActiveAtMostRunning ==
    /\ 0 <= activeTasks
    /\ activeTasks <= Cardinality(RunningWorkers)
    /\ Cardinality(RunningWorkers) <= NumWorkers
    /\ \A i \in Workers :
         (wpc[i] = "w_blocked" \/ i \in condWaiters)
           => workerStates[i] = "IDLE"

\* One worker is running a task and is counted, another has blocked again
\* after it ran a task.
C37_Witness ==
    \E i, j \in Workers :
        /\ wpc[i] = "w_run"
        /\ activeTasks = 1
        /\ RunningWorkers = {i}
        /\ wpc[j] = "w_blocked"
        /\ \E t \in TaskIds : execCount[t] = 1

(* ---------------------------------- C38 ------------------------------- *)

\* The shutdown() call that set the stop flag has returned: it is the only
\* one that joins the workers, and it returns right after the joins.
FirstShutdownReturned ==
    /\ \E c \in Closers : spc[c] = "s_returned"
    /\ \A i \in Workers : ~joinable[i]

\* C38: from the return of the shutdown() call that set the stop flag on,
\* the queue is empty and activeTasks is zero, for ever.
C38_ShutDownPoolIsEmpty ==
    /\ [](FirstShutdownReturned => (tasks = <<>> /\ activeTasks = 0))
    /\ [][FirstShutdownReturned => FirstShutdownReturned']_vars

\* The first shutdown() has returned after a task was accepted and run, and
\* an enqueue() call made after it was rejected.
C38_Witness ==
    /\ FirstShutdownReturned
    /\ \E t \in TaskIds : t \in Range(accepted) /\ execCount[t] = 1
    /\ \E t \in rejected : t > Len(accepted)
    /\ ppc = "p_call"

(* ---------------------------------- C39 ------------------------------- *)

\* Thread c is inside the shutdown() call that set the stop flag.
InShutdown(c) == spc[c] \in {"s_notify", "s_join"}

\* No worker is left blocked in condition.wait by a shutdown() that has got
\* as far as the joins: notify_all() woke every blocked worker, and a worker
\* that tests the predicate afterwards finds stop set.
NoWorkerMissesStop ==
    \A c \in Closers :
        spc[c] = "s_join" => \A i \in Workers : wpc[i] # "w_blocked"

\* C39: a shutdown() call that has set the stop flag eventually returns, and
\* no blocked worker misses the notification of the stop.
C39_ShutdownReturns ==
    /\ []NoWorkerMissesStop
    /\ \A c \in Closers : InShutdown(c) ~> (spc[c] = "s_returned")

\* When printThreadStates() is never called, a shutdown() call that has set
\* the stop flag eventually returns.
ShutdownReturnsWithoutPrintThreadStates ==
    NoPrintThreadStates
      => \A c \in Closers : InShutdown(c) ~> (spc[c] = "s_returned")

(***************************************************************************)
(* SafeMutex and SafeLockGuard (src/src/Synchronization.cpp,               *)
(* src/include/Synchronization.h).                                         *)
(*                                                                         *)
(* safeMutex[m] is one SafeMutex: mtx is the thread holding the            *)
(* std::timed_mutex, owner the std::atomic<std::thread::id>, lockCount the *)
(* std::atomic<int>.  mthread[t] is one client thread: pc is its position  *)
(* inside a method of SafeMutex ("idle" outside), at its position in the   *)
(* client code, mx the mutex of its current call, res what its last call   *)
(* returned, holds the mutexes it locked itself and has not unlocked yet,  *)
(* gLocked the member `locked` of its SafeLockGuard, tmp the value it      *)
(* loaded for counter++, second (history) what its cross-acquisition       *)
(* returned.                                                               *)
(* Clients keep the contract of unlock(): only a thread that locked the    *)
(* mutex unlocks it.                                                       *)
(***************************************************************************)

(* ------------------------------ bounds -------------------------------- *)
NumThreads == 2        \* numThreads of testMutex
MaxIncrements == 3     \* guarded scopes the threads enter, all together

Threads == 1 .. NumThreads
NoThread == 0          \* std::thread::id(), the id of no thread
CounterMutex == "counter_mutex"

(* ------------------------ pure pieces of the code --------------------- *)

\* SafeMutex::SafeMutex: owner(std::thread::id()), lockCount(0)
NewSafeMutex == [mtx |-> NoThread, owner |-> NoThread, lockCount |-> 0]

\* if (owner.load() == thisThreadId)
IsRecursive_Never(o, me) == FALSE
IsRecursive(o, me) == o = me

\* mtx.try_lock_for(timeout) and mtx.try_lock() can take the std::timed_mutex
\* only when no thread holds it.  (try_lock() by the holding thread itself is
\* outside the contract of std::timed_mutex; on the pthread mutex under it
\* the call returns EBUSY, that is false, like for any other holder.)
TimedMutexFree_Always(holder) == TRUE
TimedMutexFree(holder) == holder = NoThread

\* owner.store(id)
StoreOwner_Skip(mu, id) == mu
StoreOwner(mu, id) == [mu EXCEPT !.owner = id]

\* lock(): the path after a failed try_lock_for writes a warning to std::cerr
\* and returns false; it writes no member.
OnTimeout_ClearsOwner(mu) == [mu EXCEPT !.owner = NoThread]
OnTimeout(mu) == mu

\* mtx.try_lock_for(timeout) gives up when the std::timed_mutex has been held
\* for the whole of the timeout.
TryLockForExpires_Never(holder) == FALSE
TryLockForExpires(holder) == ~TimedMutexFree(holder)

\* isLocked(): owner.load() != std::thread::id()
IsLocked(mu) == mu.owner # NoThread

\* SafeLockGuard::SafeLockGuard: if (!locked) throw std::runtime_error(...)
CtorThrows_Never(locked) == FALSE
CtorThrows(locked) == ~locked

NewThread ==
    [pc |-> "idle", at |-> "top", mx |-> CounterMutex, res |-> "none",
     holds |-> {}, gLocked |-> FALSE, tmp |-> 0, second |-> "none"]

\* A call of lock() or tryLock() returns r to the client code of thread th.
\* Inside the constructor of a SafeLockGuard: locked = mutex.lock(); the
\* constructor throws when the lock was not acquired (the scope is left, the
\* destructor does not run, the client sees the exception), otherwise the
\* body of the scope follows.  In a task of testSemaphore nothing catches
\* the exception: it ends the task.
\* Elsewhere the client remembers which mutexes it has locked; in
\* testDeadlockPrevention it goes on according to if (mutex1.lock()) and
\* if (mutex2.lock(std::chrono::milliseconds(2000))).
Return(th, r) ==
    LET back == [th EXCEPT !.pc = "idle", !.res = r]
        ok == r = "locked"
        kept == [back EXCEPT !.holds = IF ok THEN @ \cup {th.mx} ELSE @]
    IN  CASE th.at = "g_ctor" ->
               IF CtorThrows(ok)
                 THEN [back EXCEPT !.at = "top", !.res = "threw"]
                 ELSE [back EXCEPT !.at = "g_body", !.gLocked = ok]
          [] th.at = "b_ctor" ->
               IF CtorThrows(ok)
                 THEN [back EXCEPT !.at = "b_threw", !.res = "threw"]
                 ELSE [back EXCEPT !.at = "b_body", !.gLocked = ok]
          [] th.at = "x_first" ->
               [kept EXCEPT !.at = IF ok THEN "x_holdFirst" ELSE "x_done"]
          [] th.at = "x_second" ->
               [kept EXCEPT !.at = IF ok THEN "x_gotSecond" ELSE "x_timedOut",
                            !.second = r]
          [] OTHER -> kept

\* lock(timeout), up to try_lock_for: a recursive attempt returns false at
\* once, any other goes on to wait for the std::timed_mutex.
LockEntry(th, mu, t) ==
    IF IsRecursive(mu.owner, t)
      THEN Return(th, "recursive")
      ELSE [th EXCEPT !.pc = "l_try"]

MutexFrame ==
    UNCHANGED <<threadPoolVars, semVars, bufferVars, rwVars, barrierVars, cvVars,
                spinVars>>

(* ------------------------------ SafeMutex ----------------------------- *)

\* Thread t calls m.lock(timeout) from its top level.
Lock(t, m) ==
    /\ mthread[t].pc = "idle"
    /\ mthread[t].at = "top"
    /\ mthread' = [mthread EXCEPT
                     ![t] = LockEntry([@ EXCEPT !.mx = m], safeMutex[m], t)]
    /\ UNCHANGED <<safeMutex, counter, incsDone, started>>
    /\ MutexFrame

\* if (mtx.try_lock_for(timeout)) succeeds: the std::timed_mutex is taken.
LockAcquire(t) ==
    /\ mthread[t].pc = "l_try"
    /\ TimedMutexFree(safeMutex[mthread[t].mx].mtx)
    /\ safeMutex' = [safeMutex EXCEPT ![mthread[t].mx].mtx = t]
    /\ mthread' = [mthread EXCEPT ![t].pc = "l_setOwner"]
    /\ UNCHANGED <<counter, incsDone, started>>
    /\ MutexFrame

\* mtx.try_lock_for(timeout) fails: the timeout expired while the
\* std::timed_mutex was held; lock() returns false.
LockTimeout(t) ==
    /\ mthread[t].pc = "l_try"
    /\ TryLockForExpires(safeMutex[mthread[t].mx].mtx)
    /\ safeMutex' = [safeMutex EXCEPT ![mthread[t].mx] = OnTimeout(@)]
    /\ mthread' = [mthread EXCEPT ![t] = Return(@, "timeout")]
    /\ UNCHANGED <<counter, incsDone, started>>
    /\ MutexFrame

\* owner.store(thisThreadId);  (in lock() and in tryLock())
SetOwner(t) ==
    /\ mthread[t].pc = "l_setOwner"
    /\ safeMutex' = [safeMutex EXCEPT ![mthread[t].mx] = StoreOwner(@, t)]
    /\ mthread' = [mthread EXCEPT ![t].pc = "l_incCount"]
    /\ UNCHANGED <<counter, incsDone, started>>
    /\ MutexFrame

\* lockCount++; return true;  (in lock() and in tryLock())
IncCount(t) ==
    /\ mthread[t].pc = "l_incCount"
    /\ safeMutex' = [safeMutex EXCEPT ![mthread[t].mx].lockCount = @ + 1]
    /\ mthread' = [mthread EXCEPT ![t] = Return(@, "locked")]
    /\ UNCHANGED <<counter, incsDone, started>>
    /\ MutexFrame

\* Thread t calls m.tryLock() from its top level: if (mtx.try_lock()) goes on
\* to store the owner, otherwise the call returns false.
TryLock(t, m) ==
    /\ mthread[t].pc = "idle"
    /\ mthread[t].at = "top"
    /\ IF TimedMutexFree(safeMutex[m].mtx)
         THEN /\ safeMutex' = [safeMutex EXCEPT ![m].mtx = t]
              /\ mthread' = [mthread EXCEPT ![t].mx = m, ![t].pc = "l_setOwner"]
         ELSE /\ mthread' = [mthread EXCEPT
                               ![t] = Return([@ EXCEPT !.mx = m], "busy")]
              /\ UNCHANGED safeMutex
    /\ UNCHANGED <<counter, incsDone, started>>
    /\ MutexFrame

\* Thread t calls m.unlock() on a mutex it has locked:
\* owner.store(std::thread::id());
Unlock(t, m) ==
    /\ mthread[t].pc = "idle"
    /\ mthread[t].at = "top"
    /\ m \in mthread[t].holds
    /\ safeMutex' = [safeMutex EXCEPT ![m] = StoreOwner(@, NoThread)]
    /\ mthread' = [mthread EXCEPT ![t].mx = m, ![t].pc = "u_decCount"]
    /\ UNCHANGED <<counter, incsDone, started>>
    /\ MutexFrame

\* lockCount--;
UnlockDecCount(t) ==
    /\ mthread[t].pc = "u_decCount"
    /\ safeMutex' = [safeMutex EXCEPT ![mthread[t].mx].lockCount = @ - 1]
    /\ mthread' = [mthread EXCEPT ![t].pc = "u_release"]
    /\ UNCHANGED <<counter, incsDone, started>>
    /\ MutexFrame

\* mtx.unlock(); and unlock() returns.  When the call came from the
\* destructor of a SafeLockGuard the scope of the guard is left (in
\* testSemaphore the post() of the iteration follows).
UnlockRelease(t) ==
    /\ mthread[t].pc = "u_release"
    /\ safeMutex' = [safeMutex EXCEPT ![mthread[t].mx].mtx = NoThread]
    /\ mthread' = [mthread EXCEPT
                     ![t] = IF @.at \in {"g_dtor", "b_dtor"}
                              THEN [@ EXCEPT !.pc = "idle", !.res = "none",
                                             !.at = IF @ = "g_dtor" THEN "top"
                                                                    ELSE "b_post",
                                             !.gLocked = FALSE]
                              ELSE [@ EXCEPT !.pc = "idle", !.res = "none",
                                             !.holds = @ \ {mthread[t].mx}]]
    /\ UNCHANGED <<counter, incsDone, started>>
    /\ MutexFrame

(* ---------------------------- SafeLockGuard --------------------------- *)

\* Thread t enters a scope that starts with SafeLockGuard lock(m):
\* mutex(m), locked(false); locked = mutex.lock();
GuardCtor(t, m) ==
    /\ mthread[t].pc = "idle"
    /\ mthread[t].at = "top"
    /\ started < MaxIncrements
    /\ started' = started + 1
    /\ mthread' = [mthread EXCEPT
                     ![t] = LockEntry([@ EXCEPT !.at = "g_ctor", !.mx = m],
                                      safeMutex[m], t)]
    /\ UNCHANGED <<safeMutex, counter, incsDone>>
    /\ MutexFrame

\* counter++ on a plain int, first half: the value is loaded.
GuardLoad(t) ==
    /\ mthread[t].pc = "idle"
    /\ mthread[t].at = "g_body"
    /\ mthread' = [mthread EXCEPT ![t].tmp = counter, ![t].at = "g_store"]
    /\ UNCHANGED <<safeMutex, counter, incsDone, started>>
    /\ MutexFrame

\* counter++, second half: the loaded value plus one is stored; the end of
\* the scope is reached.
GuardStore(t) ==
    /\ mthread[t].pc = "idle"
    /\ mthread[t].at = "g_store"
    /\ counter' = mthread[t].tmp + 1
    /\ incsDone' = incsDone + 1
    /\ mthread' = [mthread EXCEPT ![t].tmp = 0, ![t].at = "g_dtor"]
    /\ UNCHANGED <<safeMutex, started>>
    /\ MutexFrame

\* The body of the scope raises instead: the stack is unwound and the
\* destructor of the guard runs.
GuardBodyRaise(t) ==
    /\ mthread[t].pc = "idle"
    /\ mthread[t].at = "g_body"
    /\ mthread' = [mthread EXCEPT ![t].at = "g_dtor"]
    /\ UNCHANGED <<safeMutex, counter, incsDone, started>>
    /\ MutexFrame

\* SafeLockGuard::~SafeLockGuard: if (locked) mutex.unlock();
\* with the first statement of unlock(): owner.store(std::thread::id()).
GuardDtor(t) ==
    /\ mthread[t].pc = "idle"
    /\ mthread[t].at \in {"g_dtor", "b_dtor"}
    /\ IF mthread[t].gLocked
         THEN /\ safeMutex' = [safeMutex EXCEPT
                                 ![mthread[t].mx] = StoreOwner(@, NoThread)]
              /\ mthread' = [mthread EXCEPT ![t].pc = "u_decCount"]
         ELSE /\ mthread' = [mthread EXCEPT ![t].at = "top"]
              /\ UNCHANGED safeMutex
    /\ UNCHANGED <<counter, incsDone, started>>
    /\ MutexFrame

(* ------------------- specification: one shared SafeMutex --------------- *)

\* testMutex: SafeMutex mutex("counter_mutex"); int counter = 0; and the
\* threads that use them.
MutexInit ==
    /\ PoolInit
    /\ NoSemaphore
    /\ NoBuffer
    /\ NoRWLock
    /\ NoBarrier
    /\ NoConditionVariable
    /\ NoSpinLock
    /\ safeMutex = [m \in {CounterMutex} |-> NewSafeMutex]
    /\ mthread = [t \in Threads |-> NewThread]
    /\ counter = 0
    /\ incsDone = 0
    /\ started = 0

\* The steps of thread t inside a method of SafeMutex.
MutexStep(t) ==
    \/ LockAcquire(t)
    \/ LockTimeout(t)
    \/ SetOwner(t)
    \/ IncCount(t)
    \/ UnlockDecCount(t)
    \/ UnlockRelease(t)

GuardStep(t) ==
    \/ GuardLoad(t)
    \/ GuardStore(t)
    \/ GuardBodyRaise(t)
    \/ GuardDtor(t)

MutexNext ==
    \/ \E t \in Threads : Lock(t, CounterMutex)
    \/ \E t \in Threads : TryLock(t, CounterMutex)
    \/ \E t \in Threads : Unlock(t, CounterMutex)
    \/ \E t \in Threads : GuardCtor(t, CounterMutex)
    \/ \E t \in Threads : MutexStep(t)
    \/ \E t \in Threads : GuardStep(t)

MutexSpec == MutexInit /\ [][MutexNext]_vars

(* ------------------------------ vocabulary ---------------------------- *)

\* Thread t is between a successful lock of m (by lock(), tryLock() or the
\* constructor of its guard) and the call of the matching unlock().
Holding(t, m) ==
    /\ mthread[t].pc \notin {"u_decCount", "u_release"} \/ mthread[t].mx # m
    /\ \/ m \in mthread[t].holds
       \/ mthread[t].gLocked /\ mthread[t].mx = m

\* Thread t is inside the scope of its SafeLockGuard, after the constructor.
InScope(t) == mthread[t].at \in {"g_body", "g_store", "g_dtor"}

\* Thread t is inside lock()/tryLock() of m after taking the std::timed_mutex
\* and before storing the owner, or inside unlock() of m after clearing the
\* owner and before releasing the std::timed_mutex.
InOwnerWindow(t, m) ==
    /\ mthread[t].mx = m
    /\ mthread[t].pc \in {"l_setOwner", "u_decCount", "u_release"}

\* No thread is inside a call or a guarded scope.
MutexQuiescent ==
    \A t \in DOMAIN mthread : mthread[t].pc = "idle" /\ mthread[t].at = "top"

(* ---------------------------------- C11 ------------------------------- *)

\* C11: the counter always equals the number of increments performed (no
\* update is lost; in particular it is N after N increments), an increment
\* is only performed by a thread holding the mutex, and no two threads are
\* at the same time between a successful lock and its matching unlock.
C11_NoLostUpdate ==
    /\ counter = incsDone
    /\ \A t \in Threads : mthread[t].at \in {"g_body", "g_store"}
                            => Holding(t, CounterMutex)
    /\ \A t, u \in Threads :
         (t # u) => ~(Holding(t, CounterMutex) /\ Holding(u, CounterMutex))

\* All the scopes have been entered and left and every one incremented.
C11_Witness ==
    /\ started = MaxIncrements
    /\ counter = MaxIncrements
    /\ MutexQuiescent
    /\ safeMutex[CounterMutex].mtx = NoThread

(* ---------------------------------- C12 ------------------------------- *)

\* C12: when the thread that holds the mutex calls lock(timeout) or tryLock()
\* on it, the call returns failure in that same step (it does not wait), and
\* the mutex (holder, owner, hold counter) and what the thread holds are
\* unchanged.
C12_RecursiveAttemptRejected ==
    [][\A t \in Threads :
         (/\ Holding(t, CounterMutex)
          /\ Lock(t, CounterMutex) \/ TryLock(t, CounterMutex))
         => /\ mthread'[t].pc = "idle"
            /\ mthread'[t].res \in {"recursive", "busy"}
            /\ mthread'[t].holds = mthread[t].holds
            /\ safeMutex' = safeMutex
            /\ safeMutex[CounterMutex] =
                 [mtx |-> t, owner |-> t, lockCount |-> 1]]_vars

\* A thread holds the mutex and its tryLock() has just returned false.
C12_Witness ==
    \E t \in Threads :
        /\ mthread[t].res = "busy"
        /\ CounterMutex \in mthread[t].holds
        /\ mthread[t].pc = "idle"
        /\ safeMutex[CounterMutex] = [mtx |-> t, owner |-> t, lockCount |-> 1]

(* ---------------------------------- C13 ------------------------------- *)

\* C13: a lock(timeout) call that returns failure from try_lock_for does so
\* while another thread holds the std::timed_mutex, and leaves the mutex
\* (holder, owner, hold counter) as it was; the caller holds nothing more
\* than before.
C13_TimeoutChangesNothing ==
    [][\A t \in Threads :
         (mthread[t].pc = "l_try" /\ mthread'[t].pc = "idle")
         => /\ mthread'[t].res \in {"timeout", "threw"}
            /\ safeMutex[mthread[t].mx].mtx \in Threads \ {t}
            /\ safeMutex' = safeMutex
            /\ mthread'[t].holds = mthread[t].holds
            /\ ~mthread'[t].gLocked]_vars

\* The lock() of t has timed out while u holds the mutex, owner and counter
\* naming u's hold.
C13_Witness ==
    \E t, u \in Threads :
        /\ t # u
        /\ mthread[t].res = "timeout"
        /\ mthread[t].pc = "idle"
        /\ Holding(u, CounterMutex)
        /\ safeMutex[CounterMutex] = [mtx |-> u, owner |-> u, lockCount |-> 1]

(* ---------------------------------- C14 ------------------------------- *)

\* C14: in every state the owner identifier is set if and only if the
\* underlying std::timed_mutex is held (isLocked() is true exactly then).
C14_OwnerSetIffHeld ==
    \A m \in DOMAIN safeMutex :
        IsLocked(safeMutex[m]) <=> safeMutex[m].mtx # NoThread

\* C14 as amended: the owner identifier names thread t exactly when t holds
\* the underlying std::timed_mutex and is not between taking it and storing
\* the owner, nor between clearing the owner and releasing it.
C14_OwnerSetIffHeldOutsideCalls ==
    \A m \in DOMAIN safeMutex :
        /\ safeMutex[m].owner \in DOMAIN mthread \cup {NoThread}
        /\ \A t \in DOMAIN mthread :
             (safeMutex[m].owner = t)
               <=> (safeMutex[m].mtx = t /\ ~InOwnerWindow(t, m))

\* isLocked() is true of a mutex that a thread holds, while another thread
\* has been refused.
C14_Witness ==
    \E t, u \in Threads :
        /\ t # u
        /\ IsLocked(safeMutex[CounterMutex])
        /\ safeMutex[CounterMutex].owner = t
        /\ Holding(t, CounterMutex)
        /\ mthread[u].res \in {"busy", "timeout"}

(* ---------------------------------- C15 ------------------------------- *)

\* The lock() called by the constructor of t's guard returns false in this
\* step (at once for a recursive attempt, or on the timeout).
CtorLockFails(t) ==
    \/ /\ mthread[t].at = "g_ctor"
       /\ mthread[t].pc = "l_try"
       /\ mthread'[t].pc = "idle"
    \/ /\ GuardCtor(t, CounterMutex)
       /\ mthread'[t].pc = "idle"

\* C15: a guard whose constructor succeeded has released the mutex exactly
\* once when its scope has been left, by the end of the body and by unwinding
\* alike (the body runs only with the lock held, the hold counter stays
\* within 0..1, and a thread outside a scope that locked nothing itself does
\* not hold the mutex); a guard whose lock() fails throws to the caller and
\* changes neither the mutex nor what the thread holds.
C15_GuardReleasesOnceOrReports ==
    /\ [][\A t \in Threads :
            CtorLockFails(t)
            => /\ mthread'[t].at = "top"
               /\ mthread'[t].res = "threw"
               /\ mthread'[t].holds = mthread[t].holds
               /\ safeMutex' = safeMutex]_vars
    /\ [](\A t \in Threads :
            /\ InScope(t) => mthread[t].gLocked
            /\ (InScope(t) /\ mthread[t].pc = "idle")
                 => safeMutex[CounterMutex].mtx = t
            /\ (mthread[t].at = "top" /\ mthread[t].pc = "idle"
                  /\ mthread[t].holds = {})
                 => safeMutex[CounterMutex].mtx # t)
    /\ [](safeMutex[CounterMutex].lockCount \in {0, 1})

\* A scope has been left after its increment, and the guard of a thread that
\* holds the mutex by its own lock() has thrown and left it held.
C15_Witness ==
    \E t \in Threads :
        /\ incsDone >= 1
        /\ mthread[t].res = "threw"
        /\ mthread[t].at = "top"
        /\ CounterMutex \in mthread[t].holds
        /\ safeMutex[CounterMutex] = [mtx |-> t, owner |-> t, lockCount |-> 1]

(***************************************************************************)
(* testDeadlockPrevention (src/test/main.cpp): thread 1 locks Resource_A   *)
(* and then Resource_B with a timeout, thread 2 locks Resource_B and then  *)
(* Resource_A with a timeout.  The sleeps of the test order nothing and    *)
(* are left out.                                                           *)
(***************************************************************************)

CrossThreads == {1, 2}
CrossMutexes == {"Resource_A", "Resource_B"}

\* The mutex a thread locks first, and the one it then tries to lock.
FirstMutex(t) == IF t = 1 THEN "Resource_A" ELSE "Resource_B"
SecondMutex(t) == IF t = 1 THEN "Resource_B" ELSE "Resource_A"

\* if (mutex1.lock()) {       (thread 2: mutex2.lock())
CrossLockFirst(t) ==
    /\ mthread[t].pc = "idle"
    /\ mthread[t].at = "x_start"
    /\ mthread' = [mthread EXCEPT
                     ![t] = LockEntry([@ EXCEPT !.at = "x_first",
                                                !.mx = FirstMutex(t)],
                                      safeMutex[FirstMutex(t)], t)]
    /\ UNCHANGED <<safeMutex, counter, incsDone, started>>
    /\ MutexFrame

\* if (mutex2.lock(std::chrono::milliseconds(2000))) {   (thread 2: mutex1)
CrossLockSecond(t) ==
    /\ mthread[t].pc = "idle"
    /\ mthread[t].at = "x_holdFirst"
    /\ mthread' = [mthread EXCEPT
                     ![t] = LockEntry([@ EXCEPT !.at = "x_second",
                                                !.mx = SecondMutex(t)],
                                      safeMutex[SecondMutex(t)], t)]
    /\ UNCHANGED <<safeMutex, counter, incsDone, started>>
    /\ MutexFrame

\* mutex2.unlock(); after the cross-acquisition succeeded   (thread 2: mutex1)
CrossUnlockSecond(t) ==
    /\ mthread[t].pc = "idle"
    /\ mthread[t].at = "x_gotSecond"
    /\ safeMutex' = [safeMutex EXCEPT
                       ![SecondMutex(t)] = StoreOwner(@, NoThread)]
    /\ mthread' = [mthread EXCEPT ![t].mx = SecondMutex(t),
                                  ![t].pc = "u_decCount",
                                  ![t].at = "x_unlockSecond"]
    /\ UNCHANGED <<counter, incsDone, started>>
    /\ MutexFrame

\* mutex1.unlock(); after either branch   (thread 2: mutex2)
CrossUnlockFirst(t) ==
    /\ mthread[t].pc = "idle"
    /\ mthread[t].at \in {"x_unlockSecond", "x_timedOut"}
    /\ safeMutex' = [safeMutex EXCEPT
                       ![FirstMutex(t)] = StoreOwner(@, NoThread)]
    /\ mthread' = [mthread EXCEPT ![t].mx = FirstMutex(t),
                                  ![t].pc = "u_decCount",
                                  ![t].at = "x_unlockFirst"]
    /\ UNCHANGED <<counter, incsDone, started>>
    /\ MutexFrame

\* The task of the thread returns.
CrossReturn(t) ==
    /\ mthread[t].pc = "idle"
    /\ mthread[t].at = "x_unlockFirst"
    /\ mthread' = [mthread EXCEPT ![t].at = "x_done"]
    /\ UNCHANGED <<safeMutex, counter, incsDone, started>>
    /\ MutexFrame

\* SafeMutex mutex1("Resource_A"); SafeMutex mutex2("Resource_B"); and the
\* two tasks, not started yet.
CrossInit ==
    /\ PoolInit
    /\ NoSemaphore
    /\ NoBuffer
    /\ NoRWLock
    /\ NoBarrier
    /\ NoConditionVariable
    /\ NoSpinLock
    /\ safeMutex = [m \in CrossMutexes |-> NewSafeMutex]
    /\ mthread = [t \in CrossThreads |-> [NewThread EXCEPT !.at = "x_start"]]
    /\ counter = 0
    /\ incsDone = 0
    /\ started = 0

CrossStep(t) ==
    \/ CrossLockFirst(t)
    \/ CrossLockSecond(t)
    \/ CrossUnlockSecond(t)
    \/ CrossUnlockFirst(t)
    \/ CrossReturn(t)

CrossNext ==
    \/ \E t \in CrossThreads : CrossStep(t)
    \/ \E t \in CrossThreads : MutexStep(t)

CrossSpec == CrossInit /\ [][CrossNext]_vars

\* Every thread that can take a step eventually takes one.  A thread inside
\* try_lock_for always can: it takes the std::timed_mutex or its timeout
\* expires.
CrossFairness ==
    \A t \in CrossThreads : WF_vars(CrossStep(t) \/ MutexStep(t))

FairCrossSpec == CrossSpec /\ CrossFairness

\* Both tasks have returned.
CrossDone == \A t \in CrossThreads : mthread[t].at = "x_done"

\* Both threads hold their first mutex and neither has come back from its
\* lock() of the other one.
CrossWait ==
    \A t \in CrossThreads :
        /\ Holding(t, FirstMutex(t))
        /\ \/ mthread[t].at = "x_holdFirst"
           \/ mthread[t].at = "x_second" /\ mthread[t].pc = "l_try"

(* ---------------------------------- C16 ------------------------------- *)

\* C16: in the cross-acquisition scenario both threads eventually finish,
\* and when both have finished both mutexes are released.
C16_CrossAcquisitionTerminates ==
    /\ <>CrossDone
    /\ [](CrossDone => \A m \in CrossMutexes : safeMutex[m] = NewSafeMutex)

\* Both have finished after waiting for each other, with both mutexes free.
C16_Witness ==
    /\ CrossDone
    /\ \A t \in CrossThreads : mthread[t].second = "timeout"
    /\ \A m \in CrossMutexes : safeMutex[m] = NewSafeMutex

(* ---------------------------------- C17 ------------------------------- *)

\* C17: in the cross-acquisition scenario no thread's second lock() returns
\* success.
C17_BothCrossAcquisitionsTimeOut ==
    \A t \in CrossThreads : mthread[t].second # "locked"

\* C17 as amended: while both threads hold their first mutex and neither
\* second lock() has returned, no second lock() takes its mutex: the only
\* step a thread inside its second lock() can take is to time out and report
\* the failure.  (The other thread's call may succeed afterwards.)
C17_CrossWaitEndsByTimeout ==
    [][\A t \in CrossThreads :
         (CrossWait /\ mthread[t].at = "x_second" /\ mthread'[t] # mthread[t])
         => /\ mthread'[t].at = "x_timedOut"
            /\ mthread'[t].second = "timeout"
            /\ mthread'[t].holds = {FirstMutex(t)}
            /\ safeMutex' = safeMutex]_vars

\* Thread t has timed out of the cross-wait and released its mutex, and the
\* other thread's second lock() has then succeeded.
C17_Witness ==
    \E t, u \in CrossThreads :
        /\ mthread[t].second = "timeout"
        /\ mthread[t].at = "x_done"
        /\ mthread[u].second = "locked"
        /\ mthread[u].holds = CrossMutexes

(***************************************************************************)
(* Semaphore (src/src/Synchronization.cpp): a wrapper of a POSIX sem_t.    *)
(*                                                                         *)
(* semaphore is the object: value the value of the sem_t, initialized the  *)
(* member of that name.  sthread[t] is one client thread: pc is "idle"     *)
(* outside a call, "w_blocked" inside sem_wait, "tw_blocked" inside        *)
(* sem_timedwait; op and res are its last call and what it returned.       *)
(* semStats is history: the initial value, the number of waits of any kind *)
(* that returned true (acquired), of post() calls that returned true       *)
(* (posted), and of blocked waits that returned true (woken).              *)
(***************************************************************************)

(* ------------------------------ bounds -------------------------------- *)
NumSemThreads == 2     \* threads making any call on the Semaphore
Permits == 1           \* largest initial value of an initialised Semaphore
MaxPosts == 2          \* post() calls made on an initialised Semaphore

SemThreads == 1 .. NumSemThreads
Poster == 0            \* one more thread, which only calls post()

\* The values passed to the constructor.
InitialValues == 0 .. Permits

\* Timeouts passed to timedWait (milliseconds) and the tv_nsec that
\* clock_gettime returns.
TimeoutsMs == {-1, 0, 1500}
ClockNsec == {0, 999999999}

(* ------------------------ pure pieces of the code --------------------- *)

\* Semaphore::Semaphore: initialized(false);
\* if (sem_init(&sem, 0, value) == 0) initialized = true;
\* ok tells whether sem_init succeeded; a sem_t that was not initialised has
\* no value to speak of.
NewSemaphore(k, ok) ==
    IF ok
      THEN [value |-> k, initialized |-> TRUE]
      ELSE [value |-> 0, initialized |-> FALSE]

\* sem_wait, sem_trywait and sem_timedwait can decrement the value only when
\* it is greater than zero.
CanDecrement_Always(v) == TRUE
CanDecrement(v) == v > 0

\* The decrement of a successful wait.
Decrement_Two(v) == v - 2
Decrement(v) == v - 1

\* sem_post: the value is incremented.
PostValue_Two(v) == v + 2
PostValue(v) == v + 1

\* % and / of C++ on long: the quotient is truncated towards zero.
CRem(a, b) == IF a >= 0 THEN a % b ELSE -((-a) % b)
CDiv(a, b) == IF a >= 0 THEN a \div b ELSE -((-a) \div b)

\* timedWait: long nsec = ts.tv_nsec + (timeout.count() % 1000) * 1000000;
\* ts.tv_sec += timeout.count() / 1000 + nsec / 1000000000;
\* ts.tv_nsec = nsec % 1000000000;
\* The result is the increase of tv_sec and the new tv_nsec.
TimedWaitDeadline(tvNsec, timeoutMs) ==
    LET nsec == tvNsec + CRem(timeoutMs, 1000) * 1000000
    IN  [sec |-> CDiv(timeoutMs, 1000) + CDiv(nsec, 1000000000),
         nsec |-> CRem(nsec, 1000000000)]

\* sem_timedwait fails with EINVAL on a tv_nsec outside 0 .. 999999999.
ValidNsec(n) == 0 <= n /\ n < 1000000000

\* Whether the deadline that timedWait computes can be valid, over the
\* timeouts and clock readings considered.
DeadlineValidity ==
    {ValidNsec(TimedWaitDeadline(tvNsec, timeoutMs).nsec) :
        tvNsec \in ClockNsec, timeoutMs \in TimeoutsMs}

\* Thread record after its call of op has returned r.
SemReturn(th, o, r) == [th EXCEPT !.pc = "idle", !.op = o, !.res = r]

SemFrame ==
    UNCHANGED <<threadPoolVars, mutexVars, bufferVars, rwVars, barrierVars, cvVars,
                spinVars>>

(* ------------------------------- Semaphore ---------------------------- *)

\* wait(): if (!initialized) return false; return sem_wait(&sem) == 0;
\* sem_wait decrements at once when it can and blocks otherwise.
SemWait(t) ==
    /\ sthread[t].pc = "idle"
    /\ IF ~semaphore.initialized
         THEN /\ sthread' = [sthread EXCEPT ![t] = SemReturn(@, "wait", "false")]
              /\ UNCHANGED <<semaphore, semStats>>
         ELSE IF CanDecrement(semaphore.value)
           THEN /\ semaphore' = [semaphore EXCEPT !.value = Decrement(@)]
                /\ semStats' = [semStats EXCEPT !.acquired = @ + 1]
                /\ sthread' = [sthread EXCEPT
                                 ![t] = SemReturn(@, "wait", "true")]
           ELSE /\ sthread' = [sthread EXCEPT ![t].pc = "w_blocked",
                                              ![t].op = "wait",
                                              ![t].res = "none"]
                /\ UNCHANGED <<semaphore, semStats>>
    /\ SemFrame

\* A thread blocked in sem_wait decrements the value and returns.
SemWaitWake(t) ==
    /\ sthread[t].pc = "w_blocked"
    /\ CanDecrement(semaphore.value)
    /\ semaphore' = [semaphore EXCEPT !.value = Decrement(@)]
    /\ semStats' = [semStats EXCEPT !.acquired = @ + 1, !.woken = @ + 1]
    /\ sthread' = [sthread EXCEPT ![t] = SemReturn(@, "wait", "true")]
    /\ SemFrame

\* tryWait(): if (!initialized) return false; return sem_trywait(&sem) == 0;
SemTryWait(t) ==
    /\ sthread[t].pc = "idle"
    /\ IF semaphore.initialized /\ CanDecrement(semaphore.value)
         THEN /\ semaphore' = [semaphore EXCEPT !.value = Decrement(@)]
              /\ semStats' = [semStats EXCEPT !.acquired = @ + 1]
              /\ sthread' = [sthread EXCEPT
                               ![t] = SemReturn(@, "tryWait", "true")]
         ELSE /\ sthread' = [sthread EXCEPT
                               ![t] = SemReturn(@, "tryWait", "false")]
              /\ UNCHANGED <<semaphore, semStats>>
    /\ SemFrame

\* timedWait(timeout): if (!initialized) return false; the deadline is
\* computed; return sem_timedwait(&sem, &ts) == 0;
\* sem_timedwait decrements at once when it can, fails with EINVAL on an
\* invalid deadline (an implementation may look at the deadline before or
\* after trying the decrement), and blocks otherwise.
SemTimedWait(t) ==
    /\ sthread[t].pc = "idle"
    /\ \E valid \in DeadlineValidity :
         LET taken ==
                 /\ semaphore.initialized
                 /\ CanDecrement(semaphore.value)
                 /\ semaphore' = [semaphore EXCEPT !.value = Decrement(@)]
                 /\ semStats' = [semStats EXCEPT !.acquired = @ + 1]
                 /\ sthread' = [sthread EXCEPT
                                  ![t] = SemReturn(@, "timedWait", "true")]
             refused ==
                 /\ ~semaphore.initialized \/ ~valid
                 /\ sthread' = [sthread EXCEPT
                                  ![t] = SemReturn(@, "timedWait", "false")]
                 /\ UNCHANGED <<semaphore, semStats>>
             blocks ==
                 /\ semaphore.initialized
                 /\ valid
                 /\ ~CanDecrement(semaphore.value)
                 /\ sthread' = [sthread EXCEPT ![t].pc = "tw_blocked",
                                               ![t].op = "timedWait",
                                               ![t].res = "none"]
                 /\ UNCHANGED <<semaphore, semStats>>
         IN  taken \/ refused \/ blocks
    /\ SemFrame

\* A thread blocked in sem_timedwait decrements the value and returns.
SemTimedWaitWake(t) ==
    /\ sthread[t].pc = "tw_blocked"
    /\ CanDecrement(semaphore.value)
    /\ semaphore' = [semaphore EXCEPT !.value = Decrement(@)]
    /\ semStats' = [semStats EXCEPT !.acquired = @ + 1, !.woken = @ + 1]
    /\ sthread' = [sthread EXCEPT ![t] = SemReturn(@, "timedWait", "true")]
    /\ SemFrame

\* The deadline of a thread blocked in sem_timedwait passes: ETIMEDOUT, and
\* timedWait returns false.
SemTimedWaitExpire(t) ==
    /\ sthread[t].pc = "tw_blocked"
    /\ sthread' = [sthread EXCEPT ![t] = SemReturn(@, "timedWait", "false")]
    /\ UNCHANGED <<semaphore, semStats>>
    /\ SemFrame

\* post(): if (!initialized) return false; return sem_post(&sem) == 0;
SemPost(t) ==
    /\ sthread[t].pc = "idle"
    /\ IF ~semaphore.initialized
         THEN /\ sthread' = [sthread EXCEPT ![t] = SemReturn(@, "post", "false")]
              /\ UNCHANGED <<semaphore, semStats>>
         ELSE /\ semStats.posted < MaxPosts
              /\ semaphore' = [semaphore EXCEPT !.value = PostValue(@)]
              /\ semStats' = [semStats EXCEPT !.posted = @ + 1]
              /\ sthread' = [sthread EXCEPT ![t] = SemReturn(@, "post", "true")]
    /\ SemFrame

(* ----------------------------- specification -------------------------- *)

\* Semaphore sem(k, ...); and the threads that use it.
SemInit ==
    /\ PoolInit
    /\ NoSafeMutex
    /\ NoBuffer
    /\ NoRWLock
    /\ NoBarrier
    /\ NoConditionVariable
    /\ NoSpinLock
    /\ \E k \in InitialValues, ok \in BOOLEAN :
         /\ semaphore = NewSemaphore(k, ok)
         /\ semStats = [initial |-> semaphore.value, acquired |-> 0,
                        posted |-> 0, woken |-> 0]
    /\ sthread = [t \in SemThreads \cup {Poster} |-> [pc |-> "idle", op |-> "none",
                                        res |-> "none"]]

SemNext ==
    \/ \E t \in SemThreads : SemWait(t)
    \/ \E t \in SemThreads : SemWaitWake(t)
    \/ \E t \in SemThreads : SemTryWait(t)
    \/ \E t \in SemThreads : SemTimedWait(t)
    \/ \E t \in SemThreads : SemTimedWaitWake(t)
    \/ \E t \in SemThreads : SemTimedWaitExpire(t)
    \/ \E t \in SemThreads \cup {Poster} : SemPost(t)

SemSpec == SemInit /\ [][SemNext]_vars

\* While the value stays positive and threads are blocked in sem_wait, one
\* of them proceeds (which one is not specified); a thread blocked in
\* sem_timedwait proceeds or reaches its deadline.
SemFairness ==
    /\ WF_vars(\E t \in SemThreads : SemWaitWake(t))
    /\ \A t \in SemThreads : WF_vars(SemTimedWaitWake(t) \/ SemTimedWaitExpire(t))

FairSemSpec == SemSpec /\ SemFairness

\* The threads blocked in wait().
BlockedInWait == {t \in DOMAIN sthread : sthread[t].pc = "w_blocked"}

(* ---------------------------------- C18 ------------------------------- *)

\* C18: on a Semaphore initialised with K permits the successful waits (of
\* any kind) exceed the post() calls by at most K, and the value is never
\* negative: it is K plus the posts minus the successful waits.
C18_AtMostKOutstanding ==
    /\ semStats.acquired - semStats.posted <= semStats.initial
    /\ semaphore.value >= 0
    /\ semaphore.value =
         semStats.initial + semStats.posted - semStats.acquired

\* K >= 1 waits have succeeded without a post, no permit is left and a
\* further wait() is blocked.
C18_Witness ==
    /\ semaphore.initialized
    /\ semStats.initial >= 1
    /\ semStats.posted = 0
    /\ semStats.acquired = semStats.initial
    /\ semaphore.value = 0
    /\ BlockedInWait # {}

(* ---------------------------------- C19 ------------------------------- *)

\* C19: a post() adds exactly one permit and by itself lets no thread
\* return; a thread blocked in wait() returns only by consuming a permit, one
\* thread at a time, so that the blocked waits that have returned never
\* outnumber the posts (one post lets at most one blocked thread go, the
\* others stay blocked); and a permit does not stay available for ever
\* while threads are blocked in wait(): blocked threads return until no
\* permit or no blocked thread is left.
C19_PostReleasesAtMostOne ==
    /\ [][/\ (semStats'.posted # semStats.posted)
             => /\ semStats'.posted = semStats.posted + 1
                /\ semaphore'.value = semaphore.value + 1
                /\ \A u \in SemThreads : sthread'[u].pc = sthread[u].pc
          /\ \A t \in SemThreads :
               (sthread[t].pc = "w_blocked" /\ sthread'[t].pc # "w_blocked")
               => /\ semaphore.value > 0
                  /\ semaphore'.value = semaphore.value - 1
                  /\ sthread'[t].res = "true"
                  /\ \A u \in SemThreads \ {t} : sthread'[u] = sthread[u]]_vars
    /\ [](semStats.woken <= semStats.posted)
    /\ (semaphore.value > 0 /\ BlockedInWait # {})
         ~> (semaphore.value = 0 \/ BlockedInWait = {})

\* Two threads were blocked in wait() on a Semaphore without permits; after
\* one post() one of them has returned and the other is still blocked.
C19_Witness ==
    \E t, u \in SemThreads :
        /\ semStats.initial = 0
        /\ semStats.posted = 1
        /\ semStats.woken = 1
        /\ semaphore.value = 0
        /\ sthread[t].pc = "idle" /\ sthread[t].op = "wait"
        /\ sthread[t].res = "true"
        /\ sthread[u].pc = "w_blocked"

(* ---------------------------------- C20 ------------------------------- *)

\* What the call of thread t that returns in this step has done: it returns
\* true having consumed one permit that was there, or false having left the
\* Semaphore as it was.
ReturnsTrueIffConsumed(t) ==
    /\ sthread'[t].pc = "idle"
    /\ sthread'[t].res \in {"true", "false"}
    /\ sthread'[t].res = "true"
         => /\ semaphore.value > 0
            /\ semaphore'.value = semaphore.value - 1
    /\ sthread'[t].res = "false" => semaphore' = semaphore

\* C20: tryWait() returns in the step that calls it, timedWait(timeout)
\* returns at once or blocks and then always returns; each returns true
\* exactly when it consumed one permit, and false with the Semaphore
\* unchanged.
C20_TryAndTimedWait ==
    /\ [][\A t \in SemThreads :
            /\ SemTryWait(t) => ReturnsTrueIffConsumed(t)
            /\ (SemTimedWait(t) /\ sthread'[t].pc = "idle")
                 => ReturnsTrueIffConsumed(t)
            /\ (SemTimedWaitWake(t) \/ SemTimedWaitExpire(t))
                 => ReturnsTrueIffConsumed(t)
            /\ SemTimedWait(t) => sthread'[t].pc \in {"idle", "tw_blocked"}]_vars
    /\ \A t \in SemThreads :
         (sthread[t].pc = "tw_blocked") ~> (sthread[t].pc = "idle")

\* Without a permit left, a tryWait() and a timedWait() have returned false.
C20_Witness ==
    \E t, u \in SemThreads :
        /\ semaphore.initialized
        /\ semStats.acquired >= 1
        /\ semaphore.value = 0
        /\ sthread[t].pc = "idle" /\ sthread[t].op = "tryWait"
        /\ sthread[t].res = "false"
        /\ sthread[u].pc = "idle" /\ sthread[u].op = "timedWait"
        /\ sthread[u].res = "false"

(***************************************************************************)
(* testSemaphore (src/test/main.cpp): a producer and a consumer share a    *)
(* ring buffer under two Semaphore objects and one SafeMutex.              *)
(*                                                                         *)
(* Here semaphore maps the name of each Semaphore to its object, safeMutex *)
(* holds buffer_mutex, and mthread holds the two tasks.  buffer is the     *)
(* std::vector<int> with writePos and readPos (positions count from 0,     *)
(* slot p is slots[p + 1]).  prodcons.i is the loop variable of each task, *)
(* prodcons.item the local `item` of the consumer; prodcons.produced,      *)
(* prodcons.consumed and prodcons.unread are history: the items written,   *)
(* the items read, and the positions written and not read since.           *)
(* sem_init succeeds for both semaphores (it fails only for a value above  *)
(* SEM_VALUE_MAX), and the tasks run on two different workers of the       *)
(* pool, so they are two threads.                                          *)
(***************************************************************************)

(* ------------------------------ bounds -------------------------------- *)
BufferSize == 2        \* bufferSize of testSemaphore
ItemCount == 3         \* itemCount of testSemaphore

Producer == 1
Consumer == 2
BufferThreads == {Producer, Consumer}
EmptySlots == "empty_slots"
FullSlots == "full_slots"
BufferMutex == "buffer_mutex"

\* The semaphore a task waits on at the top of an iteration (empty.wait() in
\* the producer, full.wait() in the consumer), and the one it posts at the
\* end (full.post(), empty.post()).
WaitsOn(t) == IF t = Producer THEN EmptySlots ELSE FullSlots
Posts(t) == IF t = Producer THEN FullSlots ELSE EmptySlots

\* writePos = (writePos + 1) % bufferSize;  readPos = (readPos + 1) % bufferSize;
NextPos_Stay(p) == p
NextPos(p) == (p + 1) % BufferSize

BufferFrame ==
    UNCHANGED <<threadPoolVars, counter, incsDone, started, sthread, semStats,
                rwVars, barrierVars, cvVars, spinVars>>

(* ------------------------------ the tasks ----------------------------- *)

\* for (int i = 0; i < itemCount; ++i) { empty.wait();  (full.wait();)
\* The call returns when it has decremented the semaphore; until then the
\* task is blocked.
BufferWait(t) ==
    /\ mthread[t].pc = "idle"
    /\ mthread[t].at = "b_loop"
    /\ prodcons.i[t] < ItemCount
    /\ CanDecrement(semaphore[WaitsOn(t)].value)
    /\ semaphore' = [semaphore EXCEPT ![WaitsOn(t)].value = Decrement(@)]
    /\ mthread' = [mthread EXCEPT ![t].at = "b_enter"]
    /\ UNCHANGED <<safeMutex, buffer, prodcons>>
    /\ BufferFrame

\* The loop condition i < itemCount is false: the task returns.
BufferFinish(t) ==
    /\ mthread[t].pc = "idle"
    /\ mthread[t].at = "b_loop"
    /\ prodcons.i[t] >= ItemCount
    /\ mthread' = [mthread EXCEPT ![t].at = "b_done"]
    /\ UNCHANGED <<safeMutex, semaphore, buffer, prodcons>>
    /\ BufferFrame

\* SafeLockGuard lock(mutex);
BufferGuardCtor(t) ==
    /\ mthread[t].pc = "idle"
    /\ mthread[t].at = "b_enter"
    /\ mthread' = [mthread EXCEPT
                     ![t] = LockEntry([@ EXCEPT !.at = "b_ctor",
                                                !.mx = BufferMutex],
                                      safeMutex[BufferMutex], t)]
    /\ UNCHANGED <<safeMutex, semaphore, buffer, prodcons>>
    /\ BufferFrame

\* buffer[writePos] = i;  writePos = (writePos + 1) % bufferSize;
Produce(t) ==
    /\ t = Producer
    /\ mthread[t].pc = "idle"
    /\ mthread[t].at = "b_body"
    /\ buffer' = [buffer EXCEPT
                    !.slots[buffer.writePos + 1] = prodcons.i[t],
                    !.writePos = NextPos(@)]
    /\ prodcons' = [prodcons EXCEPT
                      !.produced = Append(@, prodcons.i[t]),
                      !.unread = @ \cup {buffer.writePos}]
    /\ mthread' = [mthread EXCEPT ![t].at = "b_dtor"]
    /\ UNCHANGED <<safeMutex, semaphore>>
    /\ BufferFrame

\* item = buffer[readPos];  readPos = (readPos + 1) % bufferSize;
Consume(t) ==
    /\ t = Consumer
    /\ mthread[t].pc = "idle"
    /\ mthread[t].at = "b_body"
    /\ buffer' = [buffer EXCEPT !.readPos = NextPos(@)]
    /\ prodcons' = [prodcons EXCEPT
                      !.item = buffer.slots[buffer.readPos + 1],
                      !.consumed = Append(@, buffer.slots[buffer.readPos + 1]),
                      !.unread = @ \ {buffer.readPos}]
    /\ mthread' = [mthread EXCEPT ![t].at = "b_dtor"]
    /\ UNCHANGED <<safeMutex, semaphore>>
    /\ BufferFrame

\* full.post();  (empty.post();)  and ++i.  The sleep_for that follows only
\* delays the task.
BufferPost(t) ==
    /\ mthread[t].pc = "idle"
    /\ mthread[t].at = "b_post"
    /\ semaphore' = [semaphore EXCEPT ![Posts(t)].value = PostValue(@)]
    /\ prodcons' = [prodcons EXCEPT !.i[t] = @ + 1]
    /\ mthread' = [mthread EXCEPT ![t].at = "b_loop"]
    /\ UNCHANGED <<safeMutex, buffer>>
    /\ BufferFrame

(* ---------------------------- specification --------------------------- *)

\* std::vector<int> buffer(bufferSize); int writePos = 0, readPos = 0;
\* Semaphore empty(bufferSize, "empty_slots"); Semaphore full(0, "full_slots");
\* SafeMutex mutex("buffer_mutex");
BufferInit ==
    /\ PoolInit
    /\ NoRWLock
    /\ NoBarrier
    /\ NoConditionVariable
    /\ NoSpinLock
    /\ counter = 0
    /\ incsDone = 0
    /\ started = 0
    /\ sthread = <<>>
    /\ semStats = <<>>
    /\ buffer = [slots |-> [p \in 1 .. BufferSize |-> 0],
                 writePos |-> 0, readPos |-> 0]
    /\ semaphore = [n \in {EmptySlots, FullSlots} |->
                      NewSemaphore(IF n = EmptySlots THEN BufferSize ELSE 0,
                                   TRUE)]
    /\ safeMutex = [m \in {BufferMutex} |-> NewSafeMutex]
    /\ mthread = [t \in BufferThreads |->
                    [NewThread EXCEPT !.at = "b_loop", !.mx = BufferMutex]]
    /\ prodcons = [i |-> [t \in BufferThreads |-> 0], item |-> 0,
                   produced |-> <<>>, consumed |-> <<>>, unread |-> {}]

BufferStep(t) ==
    \/ BufferWait(t)
    \/ BufferFinish(t)
    \/ BufferGuardCtor(t)
    \/ Produce(t)
    \/ Consume(t)
    \/ GuardDtor(t)
    \/ BufferPost(t)

BufferNext == \E t \in BufferThreads : BufferStep(t) \/ MutexStep(t)

BufferSpec == BufferInit /\ [][BufferNext]_vars

\* Each task keeps running while it can; a lock() that waits for a held
\* mutex ends by taking it or by its timeout.
BufferFairness == \A t \in BufferThreads : WF_vars(BufferStep(t) \/ MutexStep(t))

FairBufferSpec == BufferSpec /\ BufferFairness

\* Both tasks have returned (producer.get() and consumer.get() return).
BufferDone == \A t \in BufferThreads : mthread[t].at = "b_done"

\* The constructor of a SafeLockGuard has thrown in a task.
BufferThrew == \E t \in BufferThreads : mthread[t].at = "b_threw"

\* The number of filled slots: items written and not read yet.
Filled == Len(prodcons.produced) - Len(prodcons.consumed)

\* s is a prefix of q
IsPrefix(s, q) == Len(s) <= Len(q) /\ \A k \in 1 .. Len(s) : s[k] = q[k]

\* The items 0, 1, ..., n - 1 in this order.
FirstItems(n) == [k \in 1 .. n |-> k - 1]

\* What holds of the buffer in every state: the items written are 0, 1, ...
\* in this order; the items read are, in the same order, the first of the
\* items written (none twice, none skipped, none invented); the number of
\* filled slots is within 0 .. bufferSize; the producer is never about to
\* write a position that holds an unread item, and the consumer never about
\* to read a position that holds none.
BufferSafe ==
    /\ prodcons.produced = FirstItems(Len(prodcons.produced))
    /\ IsPrefix(prodcons.consumed, prodcons.produced)
    /\ Filled \in 0 .. BufferSize
    /\ Cardinality(prodcons.unread) = Filled
    /\ mthread[Producer].at = "b_body" => buffer.writePos \notin prodcons.unread
    /\ mthread[Consumer].at = "b_body" => buffer.readPos \in prodcons.unread

\* Both tasks have returned and every item has been written and read.
AllConsumed ==
    /\ BufferDone
    /\ prodcons.produced = FirstItems(ItemCount)
    /\ prodcons.consumed = prodcons.produced

(* ---------------------------------- C21 ------------------------------- *)

NumRWThreads == 3      \* threads that use the RWLock
MaxWriteLocks == 2     \* calls of writeLock(), all together

RWThreads == 1 .. NumRWThreads

(* ------------------------ pure pieces of the code --------------------- *)

\* RWLock::RWLock() : readers(0), writers(0), waitingWriters(0)
NewRWLock == [readers |-> 0, writers |-> 0, waitingWriters |-> 0,
              writeLocks |-> 0]

\* readLock(): while (writers > 0 || waitingWriters > 0)
ReaderMustWait_IgnoresWaiting(rw) == rw.writers > 0
ReaderMustWait_Never(rw) == FALSE
ReaderMustWait(rw) == rw.writers > 0 \/ rw.waitingWriters > 0

\* writeLock(): while (readers > 0 || writers > 0)
WriterMustWait_IgnoresReaders(rw) == rw.writers > 0
WriterMustWait(rw) == rw.readers > 0 \/ rw.writers > 0

\* readUnlock(): if (readers == 0) writeCV.notify_one();
LastReaderLeft(rw) == rw.readers = 0

\* writeUnlock(): if (waitingWriters > 0) writeCV.notify_one();
\*                else readCV.notify_all();
WakesWriter_Always(rw) == TRUE
WakesWriter_Never(rw) == FALSE
WakesWriter(rw) == rw.waitingWriters > 0

\* The threads blocked in the wait of a condition variable.
Blocked(th, waitPc) == {t \in DOMAIN th : th[t].pc = waitPc}

\* One thread is taken out of its wait.
Woken(th, t, wokenPc, how) == [th EXCEPT ![t].pc = wokenPc, ![t].by = how]

\* std::condition_variable::notify_one(): one of the threads blocked in the
\* wait is woken, any of them; nothing happens when none is blocked.  The
\* set of the outcomes.
NotifyOne(th, waitPc, wokenPc) ==
    IF Blocked(th, waitPc) = {}
      THEN {th}
      ELSE {Woken(th, t, wokenPc, "notify") : t \in Blocked(th, waitPc)}

\* std::condition_variable::notify_all(): every thread blocked in the wait
\* is woken.
NotifyAll_None(th, waitPc, wokenPc) == th
NotifyAll(th, waitPc, wokenPc) ==
    [t \in DOMAIN th |->
       IF th[t].pc = waitPc
         THEN [th[t] EXCEPT !.pc = wokenPc, !.by = "notify"]
         ELSE th[t]]

\* The loop of readLock() from the test of its condition on: the thread
\* waits on readCV, or leaves the loop, counts itself as a reader and
\* returns.
ReadLockLoop(rw, th, t) ==
    IF ReaderMustWait(rw)
      THEN <<rw, [th EXCEPT ![t].pc = "r_wait", ![t].by = "none"]>>
      ELSE <<[rw EXCEPT !.readers = @ + 1],
             [th EXCEPT ![t].pc = "reading", ![t].by = "none"]>>

\* waitingWriters--; writers++; at the end of writeLock().
WriterEnters_StillWaiting(rw) == [rw EXCEPT !.writers = @ + 1]
WriterEnters(rw) == [rw EXCEPT !.waitingWriters = @ - 1, !.writers = @ + 1]

\* The loop of writeLock() from the test of its condition on: the thread
\* waits on writeCV, or leaves the loop, waitingWriters--; writers++; and
\* returns.
WriteLockLoop(rw, th, t) ==
    IF WriterMustWait(rw)
      THEN <<rw, [th EXCEPT ![t].pc = "w_wait", ![t].by = "none"]>>
      ELSE <<WriterEnters(rw),
             [th EXCEPT ![t].pc = "writing", ![t].by = "none"]>>

RWFrame ==
    UNCHANGED <<threadPoolVars, mutexVars, semVars, bufferVars, barrierVars,
                cvVars, spinVars>>

(* -------------------------------- RWLock ------------------------------ *)

\* Thread t calls readLock().
ReadLock(t) ==
    /\ rwthread[t].pc = "idle"
    /\ rwLock' = ReadLockLoop(rwLock, rwthread, t)[1]
    /\ rwthread' = ReadLockLoop(rwLock, rwthread, t)[2]
    /\ RWFrame

\* readCV.wait(lock) wakes without a notification.
ReadSpuriousWake(t) ==
    /\ rwthread[t].pc = "r_wait"
    /\ rwthread' = Woken(rwthread, t, "r_woken", "spurious")
    /\ UNCHANGED rwLock
    /\ RWFrame

\* readCV.wait(lock) returns with `mutex` taken again; the loop condition is
\* tested again.
ReadRecheck(t) ==
    /\ rwthread[t].pc = "r_woken"
    /\ rwLock' = ReadLockLoop(rwLock, rwthread, t)[1]
    /\ rwthread' = ReadLockLoop(rwLock, rwthread, t)[2]
    /\ RWFrame

\* Thread t calls readUnlock(): readers--;
\* if (readers == 0) writeCV.notify_one();
ReadUnlock(t) ==
    /\ rwthread[t].pc = "reading"
    /\ LET rw == [rwLock EXCEPT !.readers = @ - 1]
           th == [rwthread EXCEPT ![t].pc = "idle"]
       IN  /\ rwLock' = rw
           /\ rwthread' \in IF LastReaderLeft(rw)
                              THEN NotifyOne(th, "w_wait", "w_woken")
                              ELSE {th}
    /\ RWFrame

\* Thread t calls writeLock(): waitingWriters++; and the loop.
WriteLock(t) ==
    /\ rwthread[t].pc = "idle"
    /\ rwLock.writeLocks < MaxWriteLocks
    /\ LET rw == [rwLock EXCEPT !.waitingWriters = @ + 1, !.writeLocks = @ + 1]
       IN  /\ rwLock' = WriteLockLoop(rw, rwthread, t)[1]
           /\ rwthread' = WriteLockLoop(rw, rwthread, t)[2]
    /\ RWFrame

\* writeCV.wait(lock) wakes without a notification.
WriteSpuriousWake(t) ==
    /\ rwthread[t].pc = "w_wait"
    /\ rwthread' = Woken(rwthread, t, "w_woken", "spurious")
    /\ UNCHANGED rwLock
    /\ RWFrame

\* writeCV.wait(lock) returns with `mutex` taken again; the loop condition
\* is tested again.
WriteRecheck(t) ==
    /\ rwthread[t].pc = "w_woken"
    /\ rwLock' = WriteLockLoop(rwLock, rwthread, t)[1]
    /\ rwthread' = WriteLockLoop(rwLock, rwthread, t)[2]
    /\ RWFrame

\* Thread t calls writeUnlock(): writers--;
\* if (waitingWriters > 0) writeCV.notify_one(); else readCV.notify_all();
WriteUnlock(t) ==
    /\ rwthread[t].pc = "writing"
    /\ LET rw == [rwLock EXCEPT !.writers = @ - 1]
           th == [rwthread EXCEPT ![t].pc = "idle"]
       IN  /\ rwLock' = rw
           /\ rwthread' \in IF WakesWriter(rw)
                              THEN NotifyOne(th, "w_wait", "w_woken")
                              ELSE {NotifyAll(th, "r_wait", "r_woken")}
    /\ RWFrame

(* ---------------------------- specification --------------------------- *)

RWInit ==
    /\ PoolInit
    /\ NoSafeMutex
    /\ NoSemaphore
    /\ NoBuffer
    /\ NoBarrier
    /\ NoConditionVariable
    /\ NoSpinLock
    /\ rwLock = NewRWLock
    /\ rwthread = [t \in RWThreads |-> [pc |-> "idle", by |-> "none"]]

RWNext ==
    \E t \in RWThreads :
        \/ ReadLock(t)
        \/ ReadSpuriousWake(t)
        \/ ReadRecheck(t)
        \/ ReadUnlock(t)
        \/ WriteLock(t)
        \/ WriteSpuriousWake(t)
        \/ WriteRecheck(t)
        \/ WriteUnlock(t)

RWSpec == RWInit /\ [][RWNext]_vars

\* A woken thread takes `mutex` again and tests its condition, and every
\* thread that holds the lock releases it.  Nothing obliges a thread to call
\* readLock() or writeLock(), and nothing obliges a wait to wake spuriously.
RWFairness ==
    \A t \in RWThreads :
        WF_vars(ReadRecheck(t) \/ WriteRecheck(t) \/ ReadUnlock(t)
                    \/ WriteUnlock(t))

FairRWSpec == RWSpec /\ RWFairness

\* The threads at position p.
RWAt(p) == {t \in RWThreads : rwthread[t].pc = p}

\* Thread t is registered in writeLock() and not admitted yet.
WaitingWriter(t) == rwthread[t].pc \in {"w_wait", "w_woken"}

\* Thread t is inside readLock() and not admitted yet.
BlockedReader(t) == rwthread[t].pc \in {"r_wait", "r_woken"}

\* Thread t is admitted as a reader (as a writer) in this step.
ReaderAdmitted(t) == rwthread[t].pc # "reading" /\ rwthread'[t].pc = "reading"
WriterAdmitted(t) == rwthread[t].pc # "writing" /\ rwthread'[t].pc = "writing"

\* This step is a return of writeUnlock().
WriteUnlockStep == \E t \in RWThreads : rwthread[t].pc = "writing" /\ rwthread'[t].pc = "idle"

(* ---------------------------------- C22 ------------------------------- *)

\* C22: the active writer count and the active reader count are never both
\* greater than zero; no thread reads while a thread holds the write lock,
\* and no two threads hold the write lock.
C22_NoReaderWithWriter ==
    /\ ~(rwLock.writers > 0 /\ rwLock.readers > 0)
    /\ RWAt("writing") # {} => RWAt("reading") = {}
    /\ Cardinality(RWAt("writing")) <= 1

\* A thread holds the write lock while a reader and another writer are kept
\* out.
C22_Witness ==
    \E t, u, w \in RWThreads :
        /\ rwthread[t].pc = "writing"
        /\ rwthread[u].pc = "r_wait"
        /\ rwthread[w].pc = "w_wait"

(* ---------------------------------- C23 ------------------------------- *)

\* C23: a writer waiting in writeLock() eventually becomes the active writer
\* although readers keep calling readLock(); the readUnlock() that takes the
\* reader count to zero wakes a blocked writer.
C23_WaitingWriterEventuallyWrites ==
    /\ \A t \in RWThreads : WaitingWriter(t) ~> (rwthread[t].pc = "writing")
    /\ [][(rwLock.readers = 1 /\ rwLock'.readers = 0 /\ RWAt("w_wait") # {})
            => \E t \in RWAt("w_wait") : rwthread'[t].pc = "w_woken"]_vars

\* A writer waits for a reader to leave while a reader that arrived after it
\* is blocked behind it.
C23_Witness ==
    \E t, u, w \in RWThreads :
        /\ rwthread[t].pc = "reading"
        /\ rwthread[w].pc = "w_wait"
        /\ rwthread[u].pc = "r_wait"
        /\ rwLock.writers = 0

(* ---------------------------------- C24 ------------------------------- *)

\* C24: the active writer count is greater than zero if and only if the
\* active reader count equals zero.
C24_WriterIffNoReaders ==
    rwLock.writers > 0 <=> rwLock.readers = 0

\* C24 as amended: the active writer count is greater than zero only if the
\* active reader count equals zero (both are zero while nobody holds the
\* lock).
C24_WriterOnlyIfNoReaders ==
    rwLock.writers > 0 => rwLock.readers = 0

\* A writer is active, with no reader, while another writer is registered.
C24_Witness ==
    /\ rwLock.writers = 1
    /\ rwLock.readers = 0
    /\ rwLock.waitingWriters = 1

(* ---------------------------------- C25 ------------------------------- *)

\* C25: a reader is admitted only in a state with no active and no waiting
\* writer, and the admission adds one to the reader count; a reader that
\* arrives while a writer is active or waiting blocks.
C25_ReaderAdmittedOnlyWithoutWriters ==
    [][/\ \A t \in RWThreads :
            /\ ReaderAdmitted(t)
                 => /\ rwLock.writers = 0
                    /\ rwLock.waitingWriters = 0
                    /\ rwLock'.readers = rwLock.readers + 1
            /\ ( /\ rwthread[t].pc = "idle"
                 /\ rwthread'[t].pc \in {"r_wait", "reading"}
                 /\ (rwLock.writers > 0 \/ rwLock.waitingWriters > 0) )
                 => rwthread'[t].pc = "r_wait"
       /\ rwLock'.readers > rwLock.readers
            => \E t \in RWThreads : ReaderAdmitted(t)]_vars

\* A reader holds the lock, a writer waits for it, and a reader that arrived
\* then has blocked although no writer is active.
C25_Witness ==
    \E t, u \in RWThreads :
        /\ rwthread[t].pc = "reading"
        /\ rwthread[u].pc = "r_wait"
        /\ rwthread[u].by = "none"
        /\ rwLock.writers = 0
        /\ rwLock.waitingWriters = 1

(* ---------------------------------- C26 ------------------------------- *)

\* What writeUnlock() does to the waiting threads: with a writer registered,
\* one blocked writer is woken if there is one and no reader is woken, and
\* no reader is admitted before a writer; with none registered, every
\* blocked reader is woken.
WriteUnlockWakes ==
    /\ (WriteUnlockStep /\ rwLock.waitingWriters > 0)
         => /\ RWAt("w_wait") # {}
                 => \E t \in RWAt("w_wait") :
                        /\ rwthread'[t].pc = "w_woken"
                        /\ rwthread'[t].by = "notify"
            /\ \A t \in RWAt("r_wait") : rwthread'[t].pc = "r_wait"
    /\ (WriteUnlockStep /\ rwLock.waitingWriters = 0)
         => \A t \in RWAt("r_wait") :
                /\ rwthread'[t].pc = "r_woken"
                /\ rwthread'[t].by = "notify"
    /\ \A t \in RWThreads :
         (ReaderAdmitted(t) => rwLock.waitingWriters = 0)

\* C26: after writeUnlock(), with a writer waiting the next thread admitted
\* is a writer; with none waiting every blocked reader is woken and is
\* admitted (the next step of a reader woken by a notification admits it).
C26_WriteUnlockHandsOver ==
    [][/\ WriteUnlockWakes
       /\ \A t \in RWThreads :
            ( /\ rwthread[t].pc = "r_woken"
              /\ rwthread[t].by = "notify"
              /\ rwthread'[t] # rwthread[t] )
              => rwthread'[t].pc = "reading"]_vars

\* C26 as amended: after writeUnlock(), with a writer waiting the next
\* thread admitted is a writer; with none waiting every blocked reader is
\* woken, and a woken reader is admitted when it tests its condition again
\* unless a writer has become active or registered in the meantime: it then
\* blocks again.
C26_WriteUnlockHandsOverUnlessWriterArrives ==
    [][/\ WriteUnlockWakes
       /\ \A t \in RWThreads :
            ( /\ rwthread[t].pc = "r_woken"
              /\ rwthread[t].by = "notify"
              /\ rwthread'[t] # rwthread[t] )
              => IF rwLock.writers = 0 /\ rwLock.waitingWriters = 0
                   THEN rwthread'[t].pc = "reading"
                   ELSE rwthread'[t].pc = "r_wait"]_vars

\* A reader woken by the notify_all of writeUnlock() has not tested its
\* condition yet, and a writer that called writeLock() after the wake-up is
\* active.
C26_Witness ==
    \E t, u \in RWThreads :
        /\ rwthread[t].pc = "r_woken"
        /\ rwthread[t].by = "notify"
        /\ rwthread[u].pc = "writing"
        /\ rwLock.writeLocks = 2

(* ---------------------------------- C36 ------------------------------- *)

\* C36: writers is 0 or 1 and readers is not negative, each the number of
\* threads holding the lock that way; waitingWriters is not negative and is
\* the number of threads registered in writeLock() and not admitted yet; and
\* waitingWriters goes down only by one, in the step that admits a thread
\* which had incremented it.
C36_CountsMatchThreads ==
    /\ [](/\ rwLock.writers \in {0, 1}
          /\ rwLock.writers = Cardinality(RWAt("writing"))
          /\ rwLock.readers >= 0
          /\ rwLock.readers = Cardinality(RWAt("reading"))
          /\ rwLock.waitingWriters >= 0
          /\ rwLock.waitingWriters
               = Cardinality({t \in RWThreads : WaitingWriter(t)}))
    /\ [][rwLock'.waitingWriters < rwLock.waitingWriters
            => /\ rwLock'.waitingWriters = rwLock.waitingWriters - 1
               /\ \E t \in RWThreads :
                    WaitingWriter(t) /\ WriterAdmitted(t)]_vars

\* Two threads are registered in writeLock() behind a reader, one blocked
\* and one woken, and waitingWriters is 2.
C36_Witness ==
    \E t, u, r \in RWThreads :
        /\ rwthread[t].pc = "w_wait"
        /\ rwthread[u].pc = "w_woken"
        /\ rwthread[r].pc = "reading"
        /\ rwLock.waitingWriters = 2
        /\ rwLock.writers = 0

(* ---------------------------------- C40 ------------------------------- *)

\* C40: a reader blocked in readLock() is eventually admitted (the threads
\* call writeLock() finitely often, and every holder releases); the
\* writeUnlock() that leaves no active and no waiting writer wakes every
\* blocked reader; and no reader is blocked, unwoken, in a state with no
\* active and no waiting writer.
C40_BlockedReaderEventuallyReads ==
    /\ \A t \in RWThreads : BlockedReader(t) ~> (rwthread[t].pc = "reading")
    /\ [][(WriteUnlockStep /\ rwLock'.writers = 0
             /\ rwLock'.waitingWriters = 0)
            => \A t \in RWAt("r_wait") :
                 /\ rwthread'[t].pc = "r_woken"
                 /\ rwthread'[t].by = "notify"]_vars
    /\ [](\A t \in RWAt("r_wait") :
            rwLock.writers > 0 \/ rwLock.waitingWriters > 0)

\* The last writeUnlock() has woken two blocked readers, no writer is active
\* or waiting, and no further writeLock() call is made.
C40_Witness ==
    \E t, u \in RWThreads :
        /\ t # u
        /\ rwthread[t].pc = "r_woken" /\ rwthread[t].by = "notify"
        /\ rwthread[u].pc = "r_woken" /\ rwthread[u].by = "notify"
        /\ rwLock.writers = 0
        /\ rwLock.waitingWriters = 0
        /\ rwLock.writeLocks = MaxWriteLocks

(***************************************************************************)
(* Barrier (src/src/Synchronization.cpp, src/include/Synchronization.h).   *)
(*                                                                         *)
(* barrier is the object with its members threshold, count and generation. *)
(* wait() holds the std::mutex `mutex` from its first statement to its     *)
(* return or to cv.wait, which releases it; so wait() is one step, split   *)
(* where it waits.  bthread[t] is one client thread: pc is "idle" outside  *)
(* wait(), "b_wait" while it is blocked inside cv.wait, "b_woken" once it  *)
(* has been woken there and has to take `mutex` again and test the         *)
(* predicate; gen is its local `gen`, phase the number of its wait() calls *)
(* that have returned, by (history) what woke it.  arrivals (history)      *)
(* counts, for each generation, the wait() calls that read it since the    *)
(* last reset().                                                           *)
(* Clients keep the contract of reset(): it is called only while no thread *)
(* is inside wait().                                                       *)
(***************************************************************************)

(* ------------------------------ bounds -------------------------------- *)
Parties == 2           \* numThreads of testBarrier, the largest threshold
Phases == 2            \* phases of testBarrier: wait() calls of each thread

\* As many threads as the largest party size use the barrier.
BarrierThreads == 1 .. Parties
Generations == 0 .. (Parties * Phases)

(* ------------------------ pure pieces of the code --------------------- *)

\* Barrier::Barrier(numThreads) : threshold(numThreads), count(0), generation(0)
NewBarrier(numThreads) ==
    [threshold |-> numThreads, count |-> 0, generation |-> 0]

\* if (++count == threshold), on the count before the increment
IsLastArrival_OneEarly(b) == b.count + 1 >= b.threshold - 1
IsLastArrival(b) == b.count + 1 = b.threshold

\* generation++; count = 0;
Advance_KeepsCount(b) == [b EXCEPT !.generation = @ + 1, !.count = @ + 1]
Advance(b) == [b EXCEPT !.generation = @ + 1, !.count = 0]

\* the predicate of cv.wait: [this, gen] { return gen != generation; }
GenerationAdvanced_Always(gen, b) == TRUE
GenerationAdvanced(gen, b) == gen # b.generation

BarrierFrame ==
    UNCHANGED <<threadPoolVars, mutexVars, semVars, bufferVars, rwVars, cvVars,
                spinVars>>

(* -------------------------------- Barrier ----------------------------- *)

\* Thread t calls wait(): size_t gen = generation; and either it is the last
\* arrival of the generation (generation++; count = 0; cv.notify_all(); and
\* wait() returns), or it is counted and waits on cv, whose predicate is
\* false at that moment.
BarrierWait(t) ==
    /\ bthread[t].pc = "idle"
    /\ bthread[t].phase < Phases
    /\ arrivals' = [arrivals EXCEPT ![barrier.generation] = @ + 1]
    /\ LET th == [bthread EXCEPT ![t].gen = barrier.generation,
                                 ![t].by = "none"]
       IN  IF IsLastArrival(barrier)
             THEN /\ barrier' = Advance(barrier)
                  /\ bthread' = [NotifyAll(th, "b_wait", "b_woken") EXCEPT
                                   ![t].phase = @ + 1]
             ELSE /\ barrier' = [barrier EXCEPT !.count = @ + 1]
                  /\ bthread' = [th EXCEPT ![t].pc = "b_wait"]
    /\ BarrierFrame

\* cv.wait wakes without a notification.
BarrierSpuriousWake(t) ==
    /\ bthread[t].pc = "b_wait"
    /\ bthread' = Woken(bthread, t, "b_woken", "spurious")
    /\ UNCHANGED <<barrier, arrivals>>
    /\ BarrierFrame

\* cv.wait has `mutex` again and tests the predicate: wait() returns when
\* the generation differs from gen, the thread blocks again otherwise.
BarrierRecheck(t) ==
    /\ bthread[t].pc = "b_woken"
    /\ bthread' = [bthread EXCEPT
                     ![t] = IF GenerationAdvanced(@.gen, barrier)
                              THEN [@ EXCEPT !.pc = "idle", !.phase = @ + 1]
                              ELSE [@ EXCEPT !.pc = "b_wait"]]
    /\ UNCHANGED <<barrier, arrivals>>
    /\ BarrierFrame

\* reset(): count = 0; generation = 0;  called while no thread is inside
\* wait().
BarrierReset ==
    /\ \A t \in BarrierThreads : bthread[t].pc = "idle"
    /\ barrier' = [barrier EXCEPT !.count = 0, !.generation = 0]
    /\ arrivals' = [g \in Generations |-> 0]
    /\ UNCHANGED bthread
    /\ BarrierFrame

(* ---------------------------- specification --------------------------- *)

BarrierInit ==
    /\ PoolInit
    /\ NoSafeMutex
    /\ NoSemaphore
    /\ NoBuffer
    /\ NoRWLock
    /\ NoConditionVariable
    /\ NoSpinLock
    /\ \E p \in 1 .. Parties : barrier = NewBarrier(p)
    /\ bthread = [t \in BarrierThreads |->
                    [pc |-> "idle", gen |-> 0, phase |-> 0, by |-> "none"]]
    /\ arrivals = [g \in Generations |-> 0]

BarrierNext ==
    \/ \E t \in BarrierThreads :
           \/ BarrierWait(t)
           \/ BarrierSpuriousWake(t)
           \/ BarrierRecheck(t)
    \/ BarrierReset

BarrierSpec == BarrierInit /\ [][BarrierNext]_vars

\* A woken thread takes `mutex` again and tests its predicate.  Nothing
\* obliges a thread to call wait().
BarrierFairness == \A t \in BarrierThreads : WF_vars(BarrierRecheck(t))

FairBarrierSpec == BarrierSpec /\ BarrierFairness

\* Thread t is inside wait().
InBarrier(t) == bthread[t].pc \in {"b_wait", "b_woken"}

\* Thread t calls wait() in this step; a wait() call of thread t returns in
\* this step.
BarrierCalled(t) == bthread[t].pc = "idle" /\ bthread'[t] # bthread[t]
BarrierReturned(t) == bthread'[t].phase = bthread[t].phase + 1

\* This step is a call of reset().
BarrierResetStep == bthread' = bthread /\ barrier' # barrier

(* ---------------------------------- C27 ------------------------------- *)

\* C27: a wait() call that read generation g returns only when threshold
\* calls of wait() have read generation g, in every generation; a thread
\* that has entered the next generation while a waiter of the previous one
\* has not returned yet is not released by the earlier advance.
C27_NoReturnBeforeAllArrive ==
    /\ [][\A t \in BarrierThreads :
            BarrierReturned(t)
              => arrivals'[bthread'[t].gen] = barrier.threshold]_vars
    /\ [](\A g \in Generations : arrivals[g] <= barrier.threshold)
    /\ [](\A t \in BarrierThreads :
            (InBarrier(t) /\ bthread[t].gen = barrier.generation)
              => arrivals[bthread[t].gen] < barrier.threshold)

\* A thread has gone through a generation and waits in the next one, while
\* a waiter of the generation before has been woken and has not returned.
C27_Witness ==
    \E t, u \in BarrierThreads :
        /\ bthread[t].pc = "b_woken"
        /\ bthread[t].gen = 0
        /\ bthread[u].pc = "b_wait"
        /\ bthread[u].gen = 1
        /\ bthread[u].phase = 1
        /\ barrier.generation = 1

(* ---------------------------------- C28 ------------------------------- *)

\* C28: without reset(), the arrival count is within 0 .. threshold - 1 in
\* every state; the step of the threshold-th arrival, and no other, sets it
\* back to 0 and adds one to the generation; a wait() call that read
\* generation g returns only in a state whose generation is not g.
C28_CountResetsWithGeneration ==
    /\ [](barrier.count \in 0 .. (barrier.threshold - 1))
    /\ [][~BarrierResetStep
            => LET lastArrival ==
                     /\ \E t \in BarrierThreads : BarrierCalled(t)
                     /\ barrier.count + 1 = barrier.threshold
               IN  /\ lastArrival
                        => /\ barrier'.count = 0
                           /\ barrier'.generation = barrier.generation + 1
                   /\ ( \/ barrier'.generation # barrier.generation
                        \/ barrier'.count < barrier.count ) => lastArrival
                   /\ \A t \in BarrierThreads :
                        BarrierReturned(t)
                          => bthread'[t].gen # barrier'.generation]_vars

\* After a first generation has completed, all but one of the parties have
\* arrived in the next and more than one is counted.
C28_Witness ==
    /\ barrier.generation >= 1
    /\ barrier.threshold >= 2
    /\ barrier.count = barrier.threshold - 1

(* ---------------------------------- C29 ------------------------------- *)

\* C29: the call that is the threshold-th arrival of a generation returns in
\* its own step and wakes every thread blocked in wait(); every thread that
\* waits for a generation that has completed eventually returns; and every
\* generation before the current one has had exactly threshold arrivals, the
\* current one count arrivals.
C29_LastArrivalReleasesAll ==
    /\ [][\A t \in BarrierThreads :
            (BarrierCalled(t) /\ barrier.count + 1 = barrier.threshold)
              => /\ BarrierReturned(t)
                 /\ bthread'[t].pc = "idle"
                 /\ \A u \in BarrierThreads :
                      bthread[u].pc = "b_wait"
                        => /\ bthread'[u].pc = "b_woken"
                           /\ bthread'[u].by = "notify"]_vars
    /\ \A t \in BarrierThreads :
         (InBarrier(t) /\ bthread[t].gen # barrier.generation)
           ~> (bthread[t].pc = "idle")
    /\ [](\A g \in Generations :
            /\ g < barrier.generation => arrivals[g] = barrier.threshold
            /\ g = barrier.generation => arrivals[g] = barrier.count)

\* The second generation has completed: its last arrival has returned and
\* the waiter it woke has not returned yet.
C29_Witness ==
    \E t, u \in BarrierThreads :
        /\ barrier.generation = 2
        /\ barrier.count = 0
        /\ bthread[t].pc = "idle"
        /\ bthread[t].gen = 1
        /\ bthread[t].phase = 2
        /\ bthread[u].pc = "b_woken"
        /\ bthread[u].by = "notify"
        /\ bthread[u].gen = 1

(***************************************************************************)
(* ConditionVariable (src/src/Synchronization.cpp,                         *)
(* src/include/Synchronization.h).                                         *)
(*                                                                         *)
(* conditionVariable is the object with its member ready.  Every method    *)
(* holds the std::mutex `mtx` from its first statement to its return or to *)
(* the wait on cv, which releases it; so a method is one step, split where *)
(* it waits.  cvthread[t] is one client thread: pc is "idle" outside the   *)
(* methods, "c_wait" while it is blocked inside cv.wait or cv.wait_for,    *)
(* "c_woken" once it has been woken there and has to take `mtx` again and  *)
(* test the predicate; op is the method it called last, res what that call *)
(* returned, by (history) what woke it last.                               *)
(* The template wait(Predicate) is defined in the .cpp file and            *)
(* instantiated nowhere, so no client can call it.                         *)
(***************************************************************************)

(* ------------------------------ bounds -------------------------------- *)
NumCVThreads == 2      \* threads that use the ConditionVariable

CVThreads == 1 .. NumCVThreads

(* ------------------------ pure pieces of the code --------------------- *)

\* ConditionVariable::ConditionVariable() : ready(false)
NewConditionVariable == [ready |-> FALSE]

\* the predicate of cv.wait and cv.wait_for: [this] { return ready; }
ReadyPredicate_Always(cv) == TRUE
ReadyPredicate(cv) == cv.ready

\* cv.wait(lock, pred) from the test of the predicate on: wait() returns, or
\* the thread blocks.
CvWaitLoop_Blocks(cv, th) == [th EXCEPT !.pc = "c_wait"]
CvWaitLoop(cv, th) ==
    IF ReadyPredicate(cv)
      THEN [th EXCEPT !.pc = "idle", !.res = "returned"]
      ELSE [th EXCEPT !.pc = "c_wait"]

\* cv.wait_for(lock, timeout, pred) from the test of the predicate on:
\* waitFor() returns true, or the thread blocks until it is woken or the
\* timeout expires.
CvWaitForLoop(cv, th) ==
    IF ReadyPredicate(cv)
      THEN [th EXCEPT !.pc = "idle", !.res = "true"]
      ELSE [th EXCEPT !.pc = "c_wait"]

\* cv.wait_for(lock, timeout, pred) at the expiry of the timeout: it returns
\* pred().
OnExpiry_False(cv) == "false"
OnExpiry(cv) == IF ReadyPredicate(cv) THEN "true" ELSE "false"

\* setReady() returns without a call of cv.notify_one() or cv.notify_all():
\* the threads are as they were.
SetReadyWaiters_AllWoken(th) == NotifyAll(th, "c_wait", "c_woken")
SetReadyWaiters(th) == th

CvFrame ==
    UNCHANGED <<threadPoolVars, mutexVars, semVars, bufferVars, rwVars,
                barrierVars, spinVars>>

(* --------------------------- ConditionVariable ------------------------ *)

\* Thread t calls wait().
CvWait(t) ==
    /\ cvthread[t].pc = "idle"
    /\ cvthread' = [cvthread EXCEPT
                      ![t] = CvWaitLoop(conditionVariable,
                                        [@ EXCEPT !.op = "wait",
                                                  !.res = "none",
                                                  !.by = "none"])]
    /\ UNCHANGED conditionVariable
    /\ CvFrame

\* Thread t calls waitFor(timeout).
CvWaitFor(t) ==
    /\ cvthread[t].pc = "idle"
    /\ cvthread' = [cvthread EXCEPT
                      ![t] = CvWaitForLoop(conditionVariable,
                                           [@ EXCEPT !.op = "waitFor",
                                                     !.res = "none",
                                                     !.by = "none"])]
    /\ UNCHANGED conditionVariable
    /\ CvFrame

\* The wait on cv wakes without a notification.
CvSpuriousWake(t) ==
    /\ cvthread[t].pc = "c_wait"
    /\ cvthread' = Woken(cvthread, t, "c_woken", "spurious")
    /\ UNCHANGED conditionVariable
    /\ CvFrame

\* The wait on cv has `mtx` again and tests the predicate.
CvRecheck(t) ==
    /\ cvthread[t].pc = "c_woken"
    /\ cvthread' = [cvthread EXCEPT
                      ![t] = IF @.op = "wait"
                               THEN CvWaitLoop(conditionVariable, @)
                               ELSE CvWaitForLoop(conditionVariable, @)]
    /\ UNCHANGED conditionVariable
    /\ CvFrame

\* The timeout of cv.wait_for expires: it takes `mtx` again and waitFor()
\* returns the value of the predicate.
CvWaitForExpire(t) ==
    /\ cvthread[t].pc \in {"c_wait", "c_woken"}
    /\ cvthread[t].op = "waitFor"
    /\ cvthread' = [cvthread EXCEPT ![t].pc = "idle",
                                    ![t].res = OnExpiry(conditionVariable)]
    /\ UNCHANGED conditionVariable
    /\ CvFrame

\* Thread t calls notify(): cv.notify_one();
CvNotify(t) ==
    /\ cvthread[t].pc = "idle"
    /\ cvthread' \in NotifyOne(cvthread, "c_wait", "c_woken")
    /\ UNCHANGED conditionVariable
    /\ CvFrame

\* Thread t calls notifyAll(): cv.notify_all();
CvNotifyAll(t) ==
    /\ cvthread[t].pc = "idle"
    /\ cvthread' = NotifyAll(cvthread, "c_wait", "c_woken")
    /\ UNCHANGED conditionVariable
    /\ CvFrame

\* Thread t calls setReady(r): ready = r;
CvSetReady(t, r) ==
    /\ cvthread[t].pc = "idle"
    /\ conditionVariable' = [conditionVariable EXCEPT !.ready = r]
    /\ cvthread' = SetReadyWaiters(cvthread)
    /\ CvFrame

(* ---------------------------- specification --------------------------- *)

CvInit ==
    /\ PoolInit
    /\ NoSafeMutex
    /\ NoSemaphore
    /\ NoBuffer
    /\ NoRWLock
    /\ NoBarrier
    /\ NoSpinLock
    /\ conditionVariable = NewConditionVariable
    /\ cvthread = [t \in CVThreads |->
                     [pc |-> "idle", op |-> "none", res |-> "none",
                      by |-> "none"]]

CvNext ==
    \E t \in CVThreads :
        \/ CvWait(t)
        \/ CvWaitFor(t)
        \/ CvSpuriousWake(t)
        \/ CvRecheck(t)
        \/ CvWaitForExpire(t)
        \/ CvNotify(t)
        \/ CvNotifyAll(t)
        \/ \E r \in BOOLEAN : CvSetReady(t, r)

CvSpec == CvInit /\ [][CvNext]_vars

\* A woken thread takes `mtx` again and tests the predicate, and the timeout
\* of a waitFor() call expires if the call does not return before.  Nothing
\* obliges a thread to call a method, and nothing obliges a wait to wake
\* spuriously.
CvFairness ==
    \A t \in CVThreads :
        WF_vars(CvRecheck(t)) /\ WF_vars(CvWaitForExpire(t))

FairCvSpec == CvSpec /\ CvFairness

\* A call of wait() by thread t returns in this step.
CvWaitReturned(t) ==
    /\ cvthread'[t] # cvthread[t]
    /\ cvthread'[t].op = "wait"
    /\ cvthread'[t].res = "returned"

(* ---------------------------------- C30 ------------------------------- *)

\* C30: wait() returns only in a state where ready is true; a thread woken
\* inside wait(), by a notification or spuriously, that finds ready false
\* blocks again.
C30_WaitReturnsOnlyWhenReady ==
    [][\A t \in CVThreads :
         /\ CvWaitReturned(t)
              => conditionVariable.ready /\ conditionVariable'.ready
         /\ ( /\ cvthread[t].pc = "c_woken"
              /\ cvthread[t].op = "wait"
              /\ ~conditionVariable.ready
              /\ cvthread'[t] # cvthread[t] )
              => /\ cvthread'[t].pc = "c_wait"
                 /\ cvthread'[t].res = "none"]_vars

\* A thread has returned from wait() after a notification, while another,
\* woken by a notification that found ready false, is blocked in wait()
\* again.
C30_Witness ==
    \E t, u \in CVThreads :
        /\ t # u
        /\ cvthread[t].op = "wait"
        /\ cvthread[t].res = "returned"
        /\ cvthread[t].by = "notify"
        /\ cvthread[u].op = "wait"
        /\ cvthread[u].pc = "c_wait"
        /\ cvthread[u].by = "notify"

\* Thread t is blocked inside wait() and leaves the wait in this step.
CvWaitLeft(t) ==
    /\ cvthread[t].op = "wait"
    /\ cvthread[t].pc = "c_wait"
    /\ cvthread'[t].pc # "c_wait"

\* A call of waitFor() by thread t returns in this step.
CvWaitForReturned(t) ==
    /\ cvthread'[t] # cvthread[t]
    /\ cvthread'[t].op = "waitFor"
    /\ cvthread'[t].pc = "idle"

(* ---------------------------------- C31 ------------------------------- *)

C32_WaitForReturnsReady ==
    /\ \A t \in CVThreads :
         (cvthread[t].op = "waitFor" /\ cvthread[t].pc # "idle")
           ~> (cvthread[t].pc = "idle")
    /\ [][\A t \in CVThreads :
            CvWaitForReturned(t)
              => /\ cvthread'[t].res \in {"true", "false"}
                 /\ cvthread'[t].res = "true" <=> conditionVariable.ready
                 /\ conditionVariable'.ready = conditionVariable.ready]_vars

\* A waitFor() call has returned false although a notification woke the
\* thread during the call.
C32_Witness ==
    \E t \in CVThreads :
        /\ cvthread[t].op = "waitFor"
        /\ cvthread[t].pc = "idle"
        /\ cvthread[t].res = "false"
        /\ cvthread[t].by = "notify"

(* ---------------------------------- C33 ------------------------------- *)

\* C33: notifyAll() wakes every thread blocked in wait(); a thread woken
\* inside wait() while ready is true eventually returns unless ready is set
\* back to false; and a wait() call made while ready is true returns in its
\* own step, without any notification.
C33_NoLostWakeup ==
    /\ [][\A t \in CVThreads :
            /\ CvNotifyAll(t)
                 => \A u \in CVThreads :
                      cvthread[u].pc = "c_wait"
                        => /\ cvthread'[u].pc = "c_woken"
                           /\ cvthread'[u].by = "notify"
            /\ (CvWait(t) /\ conditionVariable.ready)
                 => /\ cvthread'[t].pc = "idle"
                    /\ cvthread'[t].res = "returned"
                    /\ cvthread'[t].by = "none"]_vars
    /\ \A t \in CVThreads :
         ( /\ cvthread[t].op = "wait"
           /\ cvthread[t].pc = "c_woken"
           /\ conditionVariable.ready )
           ~> (cvthread[t].res = "returned" \/ ~conditionVariable.ready)

\* ready is true and a thread that a notification woke inside wait() has
\* returned.
C33_Witness ==
    \E t \in CVThreads :
        /\ conditionVariable.ready
        /\ cvthread[t].op = "wait"
        /\ cvthread[t].pc = "idle"
        /\ cvthread[t].res = "returned"
        /\ cvthread[t].by = "notify"

(***************************************************************************)
(* SpinLock (src/src/Synchronization.cpp, lines 446 to 493).               *)
(*                                                                         *)
(* The lock is a std::atomic_flag.  test_and_set and clear are atomic, so  *)
(* each is one step; lock() is a loop of test_and_set steps.  A thread     *)
(* calls unlock() only while it holds the lock: there is no owner field    *)
(* and the class leaves that discipline to its callers.  A thread that     *)
(* holds the lock may call tryLock() or lock() again.                      *)
(*                                                                         *)
(* spthread[t] = [pc, holds, res]: pc is "idle" outside the methods and    *)
(* "spinning" inside the loop of lock(); holds says that the thread is     *)
(* between a successful lock() or tryLock() and its unlock(); res is what  *)
(* the last call returned ("locked" for lock(), "true" or "false" for      *)
(* tryLock(), "unlocked" for unlock()).                                    *)
(***************************************************************************)
NumSpinThreads == 3

SpinThreads == 1 .. NumSpinThreads

\* SpinLock::SpinLock(): flag.clear()
NewSpinLock == [flag |-> FALSE]

\* flag.test_and_set(): the value the flag had, and the lock with the flag
\* set.
TestAndSet_NoSet(sl) == <<sl.flag, sl>>
TestAndSet(sl) == <<sl.flag, [sl EXCEPT !.flag = TRUE]>>

\* flag.clear()
Clear(sl) == [sl EXCEPT !.flag = FALSE]

SpinFrame ==
    UNCHANGED <<threadPoolVars, mutexVars, semVars, bufferVars, rwVars,
                barrierVars, cvVars>>

\* One evaluation of the condition of the loop of lock(): the thread leaves
\* the loop when test_and_set returned false, and tests again otherwise.
SpinAttempt(t) ==
    LET r == TestAndSet(spinLock)
    IN  /\ spinLock' = r[2]
        /\ spthread' =
             [spthread EXCEPT ![t] =
                IF r[1]
                  THEN [@ EXCEPT !.pc = "spinning", !.res = "none"]
                  ELSE [@ EXCEPT !.pc = "idle", !.holds = TRUE,
                                 !.res = "locked"]]
        /\ SpinFrame

\* SpinLock::lock(), the first test of the flag.
SpinLockCall(t) ==
    /\ spthread[t].pc = "idle"
    /\ SpinAttempt(t)

\* SpinLock::lock(), every further test of the flag.
SpinLockSpin(t) ==
    /\ spthread[t].pc = "spinning"
    /\ SpinAttempt(t)

\* SpinLock::tryLock()
SpinTryLock(t) ==
    /\ spthread[t].pc = "idle"
    /\ LET r == TestAndSet(spinLock)
       IN  /\ spinLock' = r[2]
           /\ spthread' =
                [spthread EXCEPT ![t] =
                   IF r[1]
                     THEN [@ EXCEPT !.res = "false"]
                     ELSE [@ EXCEPT !.holds = TRUE, !.res = "true"]]
    /\ SpinFrame

\* SpinLock::unlock()
SpinUnlock(t) ==
    /\ spthread[t].pc = "idle"
    /\ spthread[t].holds
    /\ spinLock' = Clear(spinLock)
    /\ spthread' = [spthread EXCEPT ![t].holds = FALSE,
                                    ![t].res = "unlocked"]
    /\ SpinFrame

SpinInit ==
    /\ PoolInit
    /\ NoSafeMutex
    /\ NoSemaphore
    /\ NoBuffer
    /\ NoRWLock
    /\ NoBarrier
    /\ NoConditionVariable
    /\ spinLock = NewSpinLock
    /\ spthread = [t \in SpinThreads |->
                     [pc |-> "idle", holds |-> FALSE, res |-> "none"]]

SpinNext ==
    \E t \in SpinThreads :
        \/ SpinLockCall(t)
        \/ SpinLockSpin(t)
        \/ SpinTryLock(t)
        \/ SpinUnlock(t)

SpinSpec == SpinInit /\ [][SpinNext]_vars

\* The threads between a successful lock() or tryLock() and their unlock().
SpinHolders == {t \in SpinThreads : spthread[t].holds}

\* Thread t acquires the lock in this step.
SpinAcquired(t) == ~spthread[t].holds /\ spthread'[t].holds

(* ---------------------------------- C34 ------------------------------- *)

\* C34: at most one thread holds the SpinLock, and the flag is set while a
\* thread holds it; tryLock() returns true exactly when the flag was clear,
\* it then holds the lock, and it leaves a set flag as it is; lock() returns
\* only in a step that found the flag clear and set it; unlock() clears the
\* flag.
C34_SpinLockExcludes ==
    /\ [](/\ Cardinality(SpinHolders) <= 1
          /\ SpinHolders # {} => spinLock.flag)
    /\ [][\A t \in SpinThreads :
            /\ SpinTryLock(t)
                 => /\ spthread'[t].res = "true" <=> ~spinLock.flag
                    /\ spthread'[t].res = "false" <=> spinLock.flag
                    /\ spthread'[t].res = "true" => spthread'[t].holds
                    /\ spthread'[t].res = "false"
                         => /\ spinLock' = spinLock
                            /\ spthread'[t].holds = spthread[t].holds
                    /\ spthread'[t].pc = "idle"
            /\ SpinAcquired(t) => (~spinLock.flag /\ spinLock'.flag)
            /\ spthread'[t].res = "locked" /\ spthread[t].res # "locked"
                 => SpinAcquired(t)
            /\ SpinUnlock(t) => ~spinLock'.flag]_vars

\* One thread holds the lock by lock(), a second spins in lock() and a
\* third has had false from tryLock().
C34_Witness ==
    \E t, u, v \in SpinThreads :
        /\ spthread[t].holds /\ spthread[t].res = "locked"
        /\ spthread[u].pc = "spinning"
        /\ spthread[v].res = "false" /\ ~spthread[v].holds
        /\ spinLock.flag

====
